---- MODULE Spec2Model ----
(***************************************************************************)
(* A model of the flowify workflow engine: the DAG builder and scheduler,  *)
(* and the engine orchestrator (loadWorkflow, start, the main loop, pause, *)
(* resume, cancel) with the step executor, the UI interaction handler and  *)
(* the asynchronous tool invoker it drives.                                *)
(***************************************************************************)
EXTENDS Integers, Sequences, FiniteSets, TLC

(***************************************************************************)
(* Bounds of the model.                                                    *)
(***************************************************************************)
MaxSteps == 3          \* steps of an enumerated definition (SpecLoad)
MaxRuns == 2           \* calls of start() that are accepted
MaxLoads == 2          \* calls of loadWorkflow() that succeed
MaxCancels == 1        \* calls of cancel() on a loaded engine
MaxInvocations == 2    \* body invocations counted per step (saturating)
MaxRetries == 2        \* retryPolicy.maxRetries of an enumerated step (SpecExec)
MaxHooks == 2          \* hooks of each of the four hook lists (SpecExec)

(***************************************************************************)
(* Workflow definitions.  A step carries its id, its dependency list (an   *)
(* array: order and repetitions are kept) and what its body does:          *)
(*   "pass"    no ui, no tools: the body returns its input                 *)
(*   "fail"    a synchronous tool whose executor always throws             *)
(*   "flaky"   a synchronous tool whose executor may throw                 *)
(*   "confirm" a Confirm UI, answered through respondToUI                  *)
(*   "async"   an asynchronous tool, answered through respondToTool        *)
(*   "skip"    a skipPolicy whose condition holds: the body never runs     *)
(* timeout says whether the UI config / the tool declares a timeout.       *)
(* named = the definition and every step carry a non-empty id, name, type. *)
(***************************************************************************)
StepIds == {"A", "B", "C", "D"}

Step(id, deps, body, timeout) ==
    [id |-> id, deps |-> deps, body |-> body, timeout |-> timeout]

Optional(set) == {<<>>} \cup {<<x>> : x \in set}

Range(s) == {s[k] : k \in 1..Len(s)}

\* Map semantics of DAGBuilder.build: keys keep the position of their first
\* insertion, the value is the one of the last insertion.
AddKey(keys, id) == IF id \in Range(keys) THEN keys ELSE Append(keys, id)

RECURSIVE KeyOrder(_)
KeyOrder(steps) ==
    IF steps = <<>> THEN <<>>
    ELSE CHOOSE keys \in {AddKey(front, steps[Len(steps)].id) :
                              front \in {KeyOrder(SubSeq(steps, 1, Len(steps) - 1))}} : TRUE

LastIndexOf(steps, id) ==
    CHOOSE k \in 1..Len(steps) :
        /\ steps[k].id = id
        /\ \A j \in (k + 1)..Len(steps) : steps[j].id # id

\* dag.nodes (as the ordered key list) and dag.edges of the built DAG;
\* node.inDegree is the length of the dependency list.
DagNodes(d) == KeyOrder(d.steps)
DagEdges(d, id) == d.steps[LastIndexOf(d.steps, id)].deps
DagStep(d, id) == d.steps[LastIndexOf(d.steps, id)]
DagInDegree(d, id) == Len(DagEdges(d, id))

\* Array.prototype.find over a sequence: the first element satisfying a set
\* membership, "none" when there is none.
RECURSIVE FindIn(_, _)
FindIn(s, good) ==
    IF s = <<>> THEN "none"
    ELSE IF Head(s) \in good THEN Head(s) ELSE FindIn(Tail(s), good)

(***************************************************************************)
(* Kahn's algorithm as in DAGBuilder.detectCycle / Scheduler.topologicalSort*)
(***************************************************************************)
\* the inner for-loop over dag.edges for one dequeued node `cur`
RECURSIVE KahnRelax(_, _, _, _, _)
KahnRelax(d, cur, ids, inDeg, queue) ==
    IF ids = <<>> THEN [inDeg |-> inDeg, queue |-> queue]
    ELSE LET id == Head(ids)
         IN IF cur \in Range(DagEdges(d, id))
            THEN LET nd == inDeg[id] - 1
                 IN KahnRelax(d, cur, Tail(ids),
                              [inDeg EXCEPT ![id] = nd],
                              IF nd = 0 THEN Append(queue, id) ELSE queue)
            ELSE KahnRelax(d, cur, Tail(ids), inDeg, queue)

RECURSIVE KahnLoop(_, _, _, _)
KahnLoop(d, inDeg, queue, sorted) ==
    IF queue = <<>> THEN sorted
    ELSE LET cur == Head(queue)
             r == KahnRelax(d, cur, DagNodes(d), inDeg, Tail(queue))
         IN KahnLoop(d, r.inDeg, r.queue, Append(sorted, cur))

RECURSIVE SelectZero(_, _)
SelectZero(d, ids) ==
    IF ids = <<>> THEN <<>>
    ELSE IF DagInDegree(d, Head(ids)) = 0
         THEN <<Head(ids)>> \o SelectZero(d, Tail(ids))
         ELSE SelectZero(d, Tail(ids))

\* the `sorted` array at the end of the while loop
KahnSorted(d) ==
    KahnLoop(d, [id \in Range(DagNodes(d)) |-> DagInDegree(d, id)],
             SelectZero(d, DagNodes(d)), <<>>)

RECURSIVE CycleWalk(_, _, _, _, _)
CycleWalk(d, start, inCycle, current, path) ==
    LET deps == DagEdges(d, current)
        visited == Range(path)
        nextInCycle == FindIn(deps, inCycle \ visited)
    IN IF nextInCycle = "none"
       THEN IF start \in Range(deps) THEN Append(path, start)
            ELSE LET backToVisited == FindIn(deps, visited)
                 IN IF backToVisited # "none" THEN Append(path, backToVisited)
                    ELSE path
       ELSE CycleWalk(d, start, inCycle, nextInCycle, Append(path, nextInCycle))

FindCycleFromNode(d, start, inCycle) ==
    CycleWalk(d, start, inCycle, start, <<start>>)

\* a cycle report that names every node of the graph
FindCyclePathAllNodes(d, sorted) == DagNodes(d)

FindCyclePath(d, sorted) ==
    LET inCycle == Range(DagNodes(d)) \ Range(sorted)
    IN IF inCycle = {} THEN <<>>
       ELSE FindCycleFromNode(d, FindIn(DagNodes(d), inCycle), inCycle)

\* "null" when the Kahn ordering holds every node, the cycle path otherwise
DetectCycle(d) ==
    LET sorted == KahnSorted(d)
    IN IF Len(sorted) # Len(DagNodes(d))
       THEN [found |-> TRUE, cycle |-> FindCyclePath(d, sorted)]
       ELSE [found |-> FALSE, cycle |-> <<>>]

HasUnknownDep(d) ==
    \E k \in 1..Len(d.steps) :
        \E j \in 1..Len(d.steps[k].deps) :
            d.steps[k].deps[j] \notin Range(DagNodes(d))

\* Scheduler.validate: what it returns or throws.
\*   "invalid"  returned {valid: false, errors}   (nothing is thrown)
\*   "cyclic"   thrown CyclicDependencyError(cycle)
\*   "valid"    returned {valid: true}
SchedulerValidate(d) ==
    IF Len(DagNodes(d)) = 0 THEN [kind |-> "invalid", cycle |-> <<>>]
    ELSE IF HasUnknownDep(d) THEN [kind |-> "invalid", cycle |-> <<>>]
    ELSE LET c == DetectCycle(d)
         IN IF c.found THEN [kind |-> "cyclic", cycle |-> c.cycle]
            ELSE [kind |-> "valid", cycle |-> <<>>]

\* WorkflowEngine.validateDefinition: does it throw ValidationError?
HasDuplicateIds(d) == Len(DagNodes(d)) # Len(d.steps)
ValidateDefinitionThrows(d) ==
    \/ ~d.named
    \/ Len(d.steps) = 0
    \/ HasDuplicateIds(d)

\* The outcome of loadWorkflow(d): the class of the error it throws, or "ok".
\* The value returned by scheduler.validate is not looked at.
LoadOutcome(d) ==
    IF ValidateDefinitionThrows(d) THEN [error |-> "ValidationError", cycle |-> <<>>]
    ELSE LET v == SchedulerValidate(d)
         IN IF v.kind = "cyclic"
            THEN [error |-> "CyclicDependencyError", cycle |-> v.cycle]
            ELSE [error |-> "ok", cycle |-> <<>>]

\* DAGBuilder.getReadySteps, as the ordered list of step ids
RECURSIVE ReadyFrom(_, _, _)
ReadyFrom(d, ids, completed) ==
    IF ids = <<>> THEN <<>>
    ELSE LET id == Head(ids)
             rest == ReadyFrom(d, Tail(ids), completed)
         IN IF id \in completed THEN rest
            ELSE IF Range(DagEdges(d, id)) \subseteq completed
                 THEN <<id>> \o rest
                 ELSE rest

\* a getReadySteps that does not look at the dependencies
GetReadyStepsNotCompleted(d, completed) ==
    SelectSeq(DagNodes(d), LAMBDA id : id \notin completed)

GetReadySteps(d, completed) == ReadyFrom(d, DagNodes(d), completed)

\* Scheduler.topologicalSort: the sorted ids it returns, or the
\* CyclicDependencyError it throws with the path of detectCycle (or []).
TopologicalSort(d) ==
    LET sorted == KahnSorted(d)
    IN IF Len(sorted) # Len(DagNodes(d))
       THEN [error |-> "CyclicDependencyError", cycle |-> DetectCycle(d).cycle,
             sorted |-> <<>>]
       ELSE [error |-> "none", cycle |-> <<>>, sorted |-> sorted]


(***************************************************************************)
(* The engine.                                                             *)
(***************************************************************************)
VARIABLES
    defn,                \* the definition the caller hands to loadWorkflow
    limits,              \* how many calls the environment makes (fixed in Init)
    instCount,           \* instanceCounter; the current instance is instCount
    instStatus,          \* instance.status of every instance created so far
    completedSteps,      \* WorkflowEngine.completedSteps
    failedSteps,         \* WorkflowEngine.failedSteps, in insertion order
    stepStatus,          \* ProgressManager.stepStates of every instance
    stepOutputs,         \* Context.stepOutputs of every instance: per step id
                         \* "unset", the body's "output" or the "defaultOutput"
    waitingItems,        \* WaitManager.waitingItems of every instance (keys)
    pendingInteractions, \* UIInteractionHandler.pendingInteractions: the run
                         \* whose step holds the entry of a step id, 0 if none
    pendingCalls,        \* ToolInvoker.pendingCalls, likewise
    timers,              \* armed setTimeout timers of UI waits and async calls
    runs,                \* number of start() calls accepted so far
    loop,                \* per start() call: where its main loop stands
    task,                \* per start() call and step: the executeStep in flight
    result,              \* per start() call: the status start() returned
    bodyCount,           \* per start() call and step: body invocations
    cancels,             \* number of cancel() calls made on a loaded engine
    pauses,              \* number of pause() calls accepted (when limited)
    events,              \* the workflow-level events emitted, in order
    lastCall,            \* the API call rejected in the last step and its error;
                         \* for a call made on the Scheduler, what it returned
    execStep,            \* the step (and global hooks) of a direct Executor call
    exec,                \* that Executor.executeStep call: where it stands
    cancelledSteps,      \* Executor.cancelledSteps
    trace,               \* what that call did so far, in order: hooks run, body
                         \* invocations, events emitted, sleeps, output writes,
                         \* and the cancelStep calls made meanwhile
    now,                 \* Date.now() of the components driven directly
    waitManager,         \* a WaitManager driven directly: its waitingItems
                         \* (per step id the startWait call that owns the
                         \* entry, 0 if none) and the waitingFor of stepStates
    waits,               \* every startWait call made on it: its wait item,
                         \* its timer and the promise it returned
    waitEvents,          \* the events that WaitManager emitted, in order
    registry,            \* the ToolRegistry of a ToolInvoker driven directly:
                         \* per tool id its ToolMeta, <<>> if not registered
    toolParams,          \* the params its callers hand to invoke
    toolInvoker,         \* that ToolInvoker: its pendingCalls (per call id
                         \* the invoke call that owns the entry, 0 if none)
    calls,               \* every invoke call made on it: its PendingToolCall,
                         \* its timer and the promise it returned
    toolEvents,          \* the events that ToolInvoker emitted, in order
    batch,               \* an executeToolInvocations call on it: where its
                         \* loop stands, its results and the globals it wrote
    uiHandler,           \* a UIInteractionHandler driven directly: its
                         \* pendingInteractions (per step id the handleUI
                         \* call that owns the entry, 0 if none)
    interactions,        \* every handleUI call made on it: its config, its
                         \* timer, the promise it returned and what
                         \* executeStepLogic made of the result
    uiEvents,            \* the events that UIInteractionHandler emitted
    eventEmitter,        \* an EventEmitter driven directly: its listeners
    emits,               \* every emit call made on it: the listeners it
                         \* found, those it called and how it ended
    progressManager,     \* a ProgressManager: its stepStates in the order of
                         \* the Map, totalSteps, activeStepId and
                         \* lastEmittedPercentage
    bus,                 \* the events emitted on its EventEmitter, in order
    transitions,         \* the updateStepStatus calls made on it for steps
                         \* it knows, in order
    flow                 \* a run of start() on its engine: the main loop,
                         \* the executeStep calls in flight and the result

waitVars == <<waitManager, waits, waitEvents>>
toolVars == <<registry, toolParams, toolInvoker, calls, toolEvents, batch>>
uiVars == <<uiHandler, interactions, uiEvents>>
emitterVars == <<eventEmitter, emits>>
progressVars == <<progressManager, bus, transitions, flow>>

\* the state of the components that are driven directly
componentVars == <<now, waitVars, toolVars, uiVars, emitterVars, progressVars>>

vars == <<defn, limits, instCount, instStatus, completedSteps, failedSteps,
          stepStatus, stepOutputs, waitingItems, pendingInteractions,
          pendingCalls, timers, runs, loop, task, result, bodyCount, cancels,
          pauses, events, lastCall, execStep, exec, cancelledSteps, trace,
          componentVars>>

Insts == 1..MaxLoads
Runs == 1..MaxRuns

NoCall == [op |-> "none", error |-> "none", cycle |-> <<>>]
Call(op, error) == [op |-> op, error |-> error, cycle |-> <<>>]

IdleLoop == [pc |-> "none", inst |-> 0, batch |-> {}]
IdleTask == [pc |-> "none", res |-> "none"]

\* getStatus(): instance?.status ?? IDLE
Status == IF instCount = 0 THEN "Idle" ELSE instStatus[instCount]

StepsOf(d) == Range(DagNodes(d))

Inc(n) == IF n < MaxInvocations THEN n + 1 ELSE n

\* Set.add on the insertion-ordered failedSteps
AddFailed(seq, s) == IF s \in Range(seq) THEN seq ELSE Append(seq, s)

\* ProgressManager.updateStepStatus on the progress manager of instance i:
\* a step id the manager does not know is left alone.
UpdateStepStatus(ss, i, s, st) ==
    IF ss[i][s] = "absent" THEN ss ELSE [ss EXCEPT ![i][s] = st]

Event(type, i, r, failedStepId) ==
    [type |-> type, inst |-> i, run |-> r, failedStepId |-> failedStepId]

\* an event of the Executor of instance i about a step
StepEvent(type, i, r, stepId) ==
    [type |-> type, inst |-> i, run |-> r, stepId |-> stepId]

EngineInit(d, lim) ==
    /\ defn = d
    /\ limits = lim
    /\ instCount = 0
    /\ instStatus = [i \in Insts |-> "none"]
    /\ completedSteps = {}
    /\ failedSteps = <<>>
    /\ stepStatus = [i \in Insts |-> [s \in StepIds |-> "absent"]]
    /\ stepOutputs = [i \in Insts |-> [s \in StepIds |-> "unset"]]
    /\ waitingItems = [i \in Insts |-> {}]
    /\ pendingInteractions = [i \in Insts |-> [s \in StepIds |-> 0]]
    /\ pendingCalls = [i \in Insts |-> [s \in StepIds |-> 0]]
    /\ timers = {}
    /\ runs = 0
    /\ loop = [r \in Runs |-> IdleLoop]
    /\ task = [r \in Runs |-> [s \in StepIds |-> IdleTask]]
    /\ result = [r \in Runs |-> "none"]
    /\ bodyCount = [r \in Runs |-> [s \in StepIds |-> 0]]
    /\ cancels = 0
    /\ pauses = 0
    /\ events = <<>>
    /\ lastCall = NoCall

(***************************************************************************)
(* loadWorkflow(defn)                                                      *)
(***************************************************************************)
LoadWorkflow ==
    LET o == LoadOutcome(defn)
        i == instCount + 1
    IN IF o.error # "ok"
       THEN /\ lastCall' = [op |-> "loadWorkflow", error |-> o.error, cycle |-> o.cycle]
            /\ lastCall' # lastCall
            /\ UNCHANGED <<componentVars, execStep, exec, cancelledSteps, trace, defn, limits, instCount, instStatus, completedSteps,
                           failedSteps, stepStatus, stepOutputs, waitingItems,
                           pendingInteractions, pendingCalls, timers, runs, loop,
                           task, result, bodyCount, cancels, pauses, events>>
       ELSE /\ instCount < limits.loads
            /\ instCount' = i
            /\ instStatus' = [instStatus EXCEPT ![i] = "Idle"]
            /\ stepStatus' = [stepStatus EXCEPT ![i] =
                   [s \in StepIds |-> IF s \in StepsOf(defn) THEN "Pending" ELSE "absent"]]
            /\ completedSteps' = {}
            /\ failedSteps' = <<>>
            /\ lastCall' = NoCall
            /\ UNCHANGED <<componentVars, execStep, exec, cancelledSteps, trace, defn, limits, stepOutputs, waitingItems,
                           pendingInteractions, pendingCalls, timers, runs, loop,
                           task, result, bodyCount, cancels, pauses, events>>

(***************************************************************************)
(* validateWorkflowDefinition(defn): the structural checks of              *)
(* validateDefinition, the check that every dependency is the id of a step *)
(* of the definition, and, when these found nothing, scheduler.parse and   *)
(* scheduler.validate, of which only a thrown error counts.                *)
(***************************************************************************)
ValidateWorkflowDefinition(d) ==
    LET hasErrors ==
            \/ ValidateDefinitionThrows(d)
            \/ \E k \in 1..Len(d.steps) : \E j \in 1..Len(d.steps[k].deps) :
                   ~(\E m \in 1..Len(d.steps) : d.steps[m].id = d.steps[k].deps[j])
    IN IF hasErrors THEN "invalid"
       ELSE IF SchedulerValidate(d).kind = "cyclic" THEN "invalid"
       ELSE "valid"

ValidateWorkflowDefinitionCall ==
    /\ lastCall' = Call("validateWorkflowDefinition", ValidateWorkflowDefinition(defn))
    /\ lastCall' # lastCall
    /\ UNCHANGED <<componentVars, execStep, exec, cancelledSteps, trace, defn, limits, instCount,
                   instStatus, completedSteps, failedSteps, stepStatus, stepOutputs,
                   waitingItems, pendingInteractions, pendingCalls, timers, runs, loop,
                   task, result, bodyCount, cancels, pauses, events>>

(***************************************************************************)
(* One pass of executeMainLoop from the top of its while loop, for the     *)
(* start() call r, reading `st` as this.instance.status; evs are the       *)
(* events emitted so far.  It runs without an await up to: waitForResume,  *)
(* the return, delay(100), or the await of Promise.all, after each ready   *)
(* step was handed to the executor.  Executor.executeStep settles a step   *)
(* whose skip condition holds before its first await: StepSkip is emitted  *)
(* and the default output written to the context the loop captured.        *)
(***************************************************************************)
Iterate(r, i, st, evs) ==
    \E ready \in {GetReadySteps(defn, completedSteps)}, cur \in {instCount} :
       IF st = "Paused"
       THEN /\ loop' = [loop EXCEPT ![r] = [pc |-> "paused", inst |-> i, batch |-> {}]]
            /\ task' = [task EXCEPT ![r] = [s \in StepIds |-> IdleTask]]
            /\ events' = evs
            /\ UNCHANGED <<stepStatus, stepOutputs>>
       ELSE IF st # "Running"
       THEN /\ loop' = [loop EXCEPT ![r] = [pc |-> "exited", inst |-> i, batch |-> {}]]
            /\ task' = [task EXCEPT ![r] = [s \in StepIds |-> IdleTask]]
            /\ events' = evs
            /\ UNCHANGED <<stepStatus, stepOutputs>>
       ELSE IF ready = <<>>
       THEN /\ loop' = [loop EXCEPT ![r] =
                   [pc |-> IF Cardinality(completedSteps) = Len(DagNodes(defn))
                              THEN "exited"
                           ELSE IF failedSteps # <<>> THEN "exited"
                           ELSE "sleep",
                    inst |-> i, batch |-> {}]]
            /\ task' = [task EXCEPT ![r] = [s \in StepIds |-> IdleTask]]
            /\ events' = evs
            /\ UNCHANGED <<stepStatus, stepOutputs>>
       ELSE \E skipped \in {SelectSeq(ready, LAMBDA s : DagStep(defn, s).body = "skip")} :
            /\ loop' = [loop EXCEPT ![r] = [pc |-> "await", inst |-> i, batch |-> Range(ready)]]
            /\ task' = [task EXCEPT ![r] = [s \in StepIds |->
                   IF s \in Range(skipped) THEN [pc |-> "result", res |-> "Skipped"]
                   ELSE IF s \in Range(ready) THEN [pc |-> "hooks", res |-> "none"]
                   ELSE IdleTask]]
            /\ stepStatus' = [stepStatus EXCEPT ![cur] = [s \in StepIds |->
                   IF s \in Range(ready) /\ stepStatus[cur][s] # "absent"
                   THEN "Running" ELSE stepStatus[cur][s]]]
            /\ stepOutputs' = [stepOutputs EXCEPT ![i] = [s \in StepIds |->
                   IF s \in Range(skipped) THEN "defaultOutput" ELSE @[s]]]
            /\ events' = evs \o [k \in 1..Len(skipped) |->
                                    StepEvent("StepSkip", cur, r, skipped[k])]

(***************************************************************************)
(* start()                                                                 *)
(***************************************************************************)
\* a start() that checks only that a workflow is loaded
StartErrorLoadedOnly == IF instCount = 0 THEN "notLoaded" ELSE "none"

\* the check at the head of start(): the error it throws, "none" if it goes on
StartError ==
    IF instCount = 0 THEN "notLoaded"
    ELSE IF Status = "Running" THEN "alreadyRunning"
    ELSE "none"

StartRejected ==
    /\ StartError # "none"
    /\ lastCall' = Call("start", StartError)
    /\ lastCall' # lastCall
    /\ UNCHANGED <<componentVars, execStep, exec, cancelledSteps, trace, defn, limits, instCount, instStatus, completedSteps, failedSteps,
                   stepStatus, stepOutputs, waitingItems, pendingInteractions,
                   pendingCalls, timers, runs, loop, task, result, bodyCount,
                   cancels, pauses, events>>

Start ==
    /\ StartError = "none"
    /\ runs < limits.runs
    /\ runs' = runs + 1
    /\ instStatus' = [instStatus EXCEPT ![instCount] = "Running"]
    /\ Iterate(runs + 1, instCount, "Running",
               Append(events, Event("WorkflowStart", instCount, runs + 1, "none")))
    /\ lastCall' = NoCall
    /\ UNCHANGED <<componentVars, execStep, exec, cancelledSteps, trace, defn, limits, instCount,
                   completedSteps, failedSteps, waitingItems, pendingInteractions,
                   pendingCalls, timers, result, bodyCount, cancels, pauses>>


(***************************************************************************)
(* One executeStep in flight: (r, s) is step s handed to the executor by   *)
(* the main loop of start() call r.                                        *)
(*   "hooks"   executeBeforeHooks is awaited                               *)
(*   "exec"    the synchronous tool's executor is awaited                  *)
(*   "wait"    the UI response / the asynchronous tool response is awaited *)
(*   "after"   the body returned: executeAfterHooks is awaited             *)
(*   "result"  Executor.executeStep returned, handleStepResult is next     *)
(*   "done"    handleStepResult ran                                        *)
(***************************************************************************)
Timer(kind, i, r, s, live) ==
    [kind |-> kind, inst |-> i, run |-> r, step |-> s, live |-> live]

\* The before-hooks returned: executeWithRetry -> executeSingleAttempt ->
\* executeStepLogic invokes the body, up to its first await.
InvokeBody(r, s) ==
    LET st == DagStep(defn, s)
        cur == instCount
    IN /\ task[r][s].pc = "hooks"
       /\ bodyCount' = [bodyCount EXCEPT ![r][s] = Inc(@)]
       /\ \/ /\ st.body = "pass"
             /\ task' = [task EXCEPT ![r][s].pc = "after"]
             /\ UNCHANGED <<pendingInteractions, pendingCalls, timers>>
          \/ /\ st.body \in {"fail", "flaky"}
             /\ task' = [task EXCEPT ![r][s].pc = "exec"]
             /\ UNCHANGED <<pendingInteractions, pendingCalls, timers>>
          \/ /\ st.body = "confirm"
             /\ task' = [task EXCEPT ![r][s].pc = "wait"]
             /\ pendingInteractions' = [pendingInteractions EXCEPT ![cur][s] = r]
             /\ timers' = IF st.timeout
                          THEN timers \cup {Timer("ui", cur, r, s, TRUE)}
                          ELSE timers
             /\ UNCHANGED pendingCalls
          \/ /\ st.body = "async"
             /\ task' = [task EXCEPT ![r][s].pc = "wait"]
             /\ pendingCalls' = [pendingCalls EXCEPT ![cur][s] = r]
             /\ timers' = IF st.timeout
                          THEN timers \cup {Timer("tool", cur, r, s, TRUE)}
                          ELSE timers
             /\ UNCHANGED pendingInteractions
       /\ lastCall' = NoCall
       /\ UNCHANGED <<componentVars, execStep, exec, cancelledSteps, trace, defn, limits, instCount, instStatus, completedSteps,
                      failedSteps, stepStatus, stepOutputs, waitingItems, runs,
                      loop, result, cancels, pauses, events>>

\* The executor of a synchronous tool settles: "fail" throws, "flaky" may.
\* A failed tool makes executeStepLogic throw: the attempt returns Failed and,
\* without a retry policy, so does Executor.executeStep.
ToolExecDone(r, s, ok) ==
    /\ task[r][s].pc = "exec"
    /\ ok => DagStep(defn, s).body = "flaky"
    /\ task' = [task EXCEPT ![r][s] =
           IF ok THEN [pc |-> "after", res |-> "none"]
           ELSE [pc |-> "result", res |-> "Failed"]]
    /\ lastCall' = NoCall
    /\ UNCHANGED <<componentVars, execStep, exec, cancelledSteps, trace, defn, limits, instCount, instStatus, completedSteps, failedSteps,
                   stepStatus, stepOutputs, waitingItems, pendingInteractions,
                   pendingCalls, timers, runs, loop, result, bodyCount, cancels,
                   pauses, events>>

\* The after-hooks returned: context.setStepOutput on the context the main
\* loop captured, then Executor.executeStep returns Success.
AfterCommit(r, s) ==
    /\ task[r][s].pc = "after"
    /\ stepOutputs' = [stepOutputs EXCEPT ![loop[r].inst][s] = "output"]
    /\ task' = [task EXCEPT ![r][s] = [pc |-> "result", res |-> "Success"]]
    /\ lastCall' = NoCall
    /\ UNCHANGED <<componentVars, execStep, exec, cancelledSteps, trace, defn, limits, instCount, instStatus, completedSteps, failedSteps,
                   stepStatus, waitingItems, pendingInteractions, pendingCalls,
                   timers, runs, loop, result, bodyCount, cancels, pauses, events>>

\* a handleStepResult that counts a skipped step as failed
CountsAsCompletedSuccessOnly(res) == res = "Success"

\* handleStepResult: the statuses that put the step into completedSteps
CountsAsCompleted(res) == res \in {"Success", "Skipped"}

HandleStepResult(r, s) ==
    /\ task[r][s].pc = "result"
    /\ task' = [task EXCEPT ![r][s].pc = "done"]
    /\ IF CountsAsCompleted(task[r][s].res)
       THEN /\ completedSteps' = completedSteps \cup {s}
            /\ UNCHANGED failedSteps
       ELSE /\ failedSteps' = AddFailed(failedSteps, s)
            /\ UNCHANGED completedSteps
    /\ stepStatus' = UpdateStepStatus(stepStatus, instCount, s, task[r][s].res)
    /\ lastCall' = NoCall
    /\ UNCHANGED <<componentVars, execStep, exec, cancelledSteps, trace, defn, limits, instCount, instStatus, stepOutputs, waitingItems,
                   pendingInteractions, pendingCalls, timers, runs, loop, result,
                   bodyCount, cancels, pauses, events>>

(***************************************************************************)
(* The main loop resumes: Promise.all settled, delay(100) elapsed, or      *)
(* waitForResume returned.                                                 *)
(***************************************************************************)
LoopUnchanged ==
    UNCHANGED <<componentVars, execStep, exec, cancelledSteps, trace, defn, limits, instCount,
                instStatus, completedSteps, failedSteps, waitingItems,
                pendingInteractions, pendingCalls, timers, runs, result, bodyCount,
                cancels, pauses>>

LoopBatchDone(r) ==
    /\ loop[r].pc = "await"
    /\ \A s \in loop[r].batch : task[r][s].pc = "done"
    /\ Iterate(r, loop[r].inst, Status, events)
    /\ lastCall' = NoCall
    /\ LoopUnchanged

LoopSleepWake(r) ==
    /\ loop[r].pc = "sleep"
    /\ Iterate(r, loop[r].inst, Status, events)
    /\ lastCall' = NoCall
    /\ LoopUnchanged

LoopResumeWake(r) ==
    /\ loop[r].pc = "paused"
    /\ Status # "Paused"
    /\ Iterate(r, loop[r].inst, Status, events)
    /\ lastCall' = NoCall
    /\ LoopUnchanged

\* executeMainLoop returned: the rest of start()
StartReturn(r) ==
    /\ loop[r].pc = "exited"
    /\ loop' = [loop EXCEPT ![r].pc = "returned"]
    /\ IF failedSteps # <<>>
       THEN /\ instStatus' = [instStatus EXCEPT ![instCount] = "Failed"]
            /\ events' = Append(events, Event("WorkflowFailed", instCount, r, failedSteps[1]))
            /\ result' = [result EXCEPT ![r] = "Failed"]
       ELSE /\ instStatus' = [instStatus EXCEPT ![instCount] = "Completed"]
            /\ events' = Append(events, Event("WorkflowComplete", instCount, r, "none"))
            /\ result' = [result EXCEPT ![r] = "Completed"]
    /\ lastCall' = NoCall
    /\ UNCHANGED <<componentVars, execStep, exec, cancelledSteps, trace, defn, limits, instCount, completedSteps, failedSteps, stepStatus,
                   stepOutputs, waitingItems, pendingInteractions, pendingCalls,
                   timers, runs, task, bodyCount, cancels, pauses>>

(***************************************************************************)
(* pause(), resume(), cancel()                                             *)
(***************************************************************************)
ApiUnchanged ==
    UNCHANGED <<componentVars, execStep, exec, cancelledSteps, trace, defn, limits, instCount, completedSteps, failedSteps, stepStatus,
                stepOutputs, pendingInteractions, pendingCalls, timers, runs, loop,
                task, result, bodyCount>>

\* the checks at the head of pause(), resume() and cancel()
\* a pause() that checks only that a workflow is loaded
PauseErrorLoadedOnly == IF instCount = 0 THEN "noWorkflow" ELSE "none"

PauseError ==
    IF instCount = 0 THEN "noWorkflow"
    ELSE IF Status # "Running" THEN "notRunning"
    ELSE "none"

ResumeError ==
    IF instCount = 0 THEN "noWorkflow"
    ELSE IF Status # "Paused" THEN "notPaused"
    ELSE "none"

CancelError == IF instCount = 0 THEN "noWorkflow" ELSE "none"

PauseRejected ==
    /\ PauseError # "none"
    /\ lastCall' = Call("pause", PauseError)
    /\ lastCall' # lastCall
    /\ ApiUnchanged
    /\ UNCHANGED <<instStatus, waitingItems, cancels, pauses, events>>

Pause ==
    /\ PauseError = "none"
    /\ limits.pauses = 0 \/ pauses < limits.pauses
    /\ pauses' = IF limits.pauses = 0 THEN pauses ELSE pauses + 1
    /\ instStatus' = [instStatus EXCEPT ![instCount] = "Paused"]
    /\ lastCall' = NoCall
    /\ ApiUnchanged
    /\ UNCHANGED <<waitingItems, cancels, events>>

ResumeRejected ==
    /\ ResumeError # "none"
    /\ lastCall' = Call("resume", ResumeError)
    /\ lastCall' # lastCall
    /\ ApiUnchanged
    /\ UNCHANGED <<instStatus, waitingItems, cancels, pauses, events>>

Resume ==
    /\ ResumeError = "none"
    /\ instStatus' = [instStatus EXCEPT ![instCount] = "Running"]
    /\ lastCall' = NoCall
    /\ ApiUnchanged
    /\ UNCHANGED <<waitingItems, cancels, pauses, events>>

CancelRejected ==
    /\ CancelError # "none"
    /\ lastCall' = Call("cancel", CancelError)
    /\ lastCall' # lastCall
    /\ ApiUnchanged
    /\ UNCHANGED <<instStatus, waitingItems, cancels, pauses, events>>

\* cancelAllWaits acts on the wait manager's waitingItems only
Cancel ==
    /\ CancelError = "none"
    /\ cancels < limits.cancels
    /\ cancels' = cancels + 1
    /\ waitingItems' = [waitingItems EXCEPT ![instCount] = {}]
    /\ instStatus' = [instStatus EXCEPT ![instCount] = "Failed"]
    /\ events' = Append(events, Event("WorkflowFailed", instCount, 0, "none"))
    /\ lastCall' = NoCall
    /\ ApiUnchanged
    /\ UNCHANGED pauses

(***************************************************************************)
(* respondToUI, respondToTool and the timers                               *)
(***************************************************************************)
RespondUnchanged ==
    UNCHANGED <<componentVars, execStep, exec, cancelledSteps, trace, defn, limits, instCount, instStatus, completedSteps, failedSteps,
                stepStatus, stepOutputs, waitingItems, runs, loop, result,
                bodyCount, cancels, pauses, events>>

\* respondToUI(s, response) on a pending Confirm: clearTimeout, delete the
\* entry, resolve the awaiting handleUI with success.
RespondToUI(s) ==
    LET cur == instCount
        owner == pendingInteractions[cur][s]
    IN /\ cur # 0
       /\ owner # 0
       /\ timers' = timers \ {Timer("ui", cur, owner, s, TRUE)}
       /\ pendingInteractions' = [pendingInteractions EXCEPT ![cur][s] = 0]
       /\ task' = [task EXCEPT ![owner][s].pc = "after"]
       /\ lastCall' = NoCall
       /\ UNCHANGED pendingCalls
       /\ RespondUnchanged

\* respondToTool(s, toolId, result): pendingCall.resolve deletes the entry and
\* resolves the awaiting invoke with success; the timer is left armed.
RespondToTool(s) ==
    LET cur == instCount
        owner == pendingCalls[cur][s]
    IN /\ cur # 0
       /\ owner # 0
       /\ timers' = (timers \ {Timer("tool", cur, owner, s, TRUE)}) \cup
                    (IF Timer("tool", cur, owner, s, TRUE) \in timers
                     THEN {Timer("tool", cur, owner, s, FALSE)} ELSE {})
       /\ pendingCalls' = [pendingCalls EXCEPT ![cur][s] = 0]
       /\ task' = [task EXCEPT ![owner][s].pc = "after"]
       /\ lastCall' = NoCall
       /\ UNCHANGED pendingInteractions
       /\ RespondUnchanged

\* The timer of a Confirm fires: if the handler holds an entry for the step
\* id, the entry is deleted and the timer's own handleUI resolves with a
\* Timeout failure, which makes its step body throw.
UITimerFires(t) ==
    /\ t \in timers
    /\ t.kind = "ui"
    /\ timers' = timers \ {t}
    /\ IF pendingInteractions[t.inst][t.step] # 0
       THEN /\ pendingInteractions' = [pendingInteractions EXCEPT ![t.inst][t.step] = 0]
            /\ task' = [task EXCEPT ![t.run][t.step] = [pc |-> "result", res |-> "Failed"]]
       ELSE UNCHANGED <<pendingInteractions, task>>
    /\ lastCall' = NoCall
    /\ UNCHANGED pendingCalls
    /\ RespondUnchanged

\* The timer of an asynchronous tool call fires: if pendingCalls holds an
\* entry under the call id, the timer's own pendingCall.reject deletes that
\* entry and resolves its own invoke with a Timeout failure (a no-op when that
\* invoke was resolved before).
ToolTimerFires(t) ==
    /\ t \in timers
    /\ t.kind = "tool"
    /\ timers' = timers \ {t}
    /\ IF pendingCalls[t.inst][t.step] # 0
       THEN /\ pendingCalls' = [pendingCalls EXCEPT ![t.inst][t.step] = 0]
            /\ task' = IF t.live
                       THEN [task EXCEPT ![t.run][t.step] = [pc |-> "result", res |-> "Failed"]]
                       ELSE task
       ELSE UNCHANGED <<pendingCalls, task>>
    /\ lastCall' = NoCall
    /\ UNCHANGED pendingInteractions
    /\ RespondUnchanged


(***************************************************************************)
(* The definitions the engine is run on.                                   *)
(***************************************************************************)
Def(steps) == [steps |-> steps, named |-> TRUE]

\* A; B and C depend on A; D depends on B and C.
Diamond(bBody, dBody) ==
    Def(<<Step("A", <<>>, "pass", FALSE),
          Step("B", <<"A">>, bBody, FALSE),
          Step("C", <<"A">>, "pass", FALSE),
          Step("D", <<"B", "C">>, dBody, FALSE)>>)

\* B depends on A
Chain(aBody, aTimeout, bBody) ==
    Def(<<Step("A", <<>>, aBody, aTimeout), Step("B", <<"A">>, bBody, FALSE)>>)

Single(aBody, aTimeout) == Def(<<Step("A", <<>>, aBody, aTimeout)>>)

LinearFlow == Chain("pass", FALSE, "pass")
ConfirmFlow == Chain("confirm", FALSE, "pass")
AsyncFlow == Chain("async", FALSE, "pass")
FlakyFlow == Chain("flaky", FALSE, "pass")
FailFlow == Chain("fail", FALSE, "pass")

\* B names a dependency that is no step of the definition
UnknownDepFlow ==
    Def(<<Step("A", <<>>, "pass", FALSE),
          Step("B", <<"C">>, "pass", FALSE)>>)

\* A -> C -> B -> A
CyclicFlow ==
    Def(<<Step("A", <<"C">>, "pass", FALSE),
          Step("B", <<"A">>, "pass", FALSE),
          Step("C", <<"B">>, "pass", FALSE)>>)

Catalogue ==
    {LinearFlow, ConfirmFlow, FlakyFlow, Single("confirm", TRUE),
     Single("async", TRUE), UnknownDepFlow, CyclicFlow}

FullLimits ==
    [runs |-> MaxRuns, loads |-> MaxLoads, cancels |-> MaxCancels, pauses |-> 0]

(***************************************************************************)
(* The Executor called directly: executor.executeStep(step, context,       *)
(* executeFn) on a step with skip policy, retry policy and hooks, with a   *)
(* HookManager holding global hooks, and cancelStep called at any time.    *)
(* Whether a hook handler or the body (executeFn) throws is decided when   *)
(* it settles.  An absent (undefined) field is the empty sequence, a       *)
(* present one a sequence of one element.                                  *)
(***************************************************************************)
HookList(phase, n) == [k \in 1..n |-> [phase |-> phase, n |-> k]]

ExecStep(retryPolicy, skipPolicy, gb, sb, sa, ga) ==
    [id |-> "A", retryPolicy |-> retryPolicy, skipPolicy |-> skipPolicy,
     globalBeforeHooks |-> HookList("globalBefore", gb),
     beforeHooks |-> HookList("before", sb),
     afterHooks |-> HookList("after", sa),
     globalAfterHooks |-> HookList("globalAfter", ga)]

NoExecStep == ExecStep(<<>>, <<>>, 0, 0, 0, 0)

NoResult == [status |-> "none", error |-> "none", retryCount |-> <<>>]
StepResult(status, error, retryCount) ==
    [status |-> status, error |-> error, retryCount |-> retryCount]

\* the entries of the trace
HookRun(h, ok) == [kind |-> "hook", name |-> h.phase, n |-> h.n, ok |-> ok]
BodyRun(attempt) == [kind |-> "body", name |-> "executeFn", n |-> attempt, ok |-> TRUE]
Emit(type, attempt) == [kind |-> "event", name |-> type, n |-> attempt, ok |-> TRUE]
Sleep(ms) == [kind |-> "sleep", name |-> "setTimeout", n |-> ms, ok |-> TRUE]
SetStepOutput(value) == [kind |-> "output", name |-> value, n |-> 0, ok |-> TRUE]
CancelCall == [kind |-> "cancel", name |-> "cancelStep", n |-> 0, ok |-> TRUE]

ExecutorInit(st) ==
    /\ execStep = st
    /\ exec = [pc |-> "idle", currentRetryCount |-> 0, invoked |-> 0,
               outcomes |-> <<>>, stepOutput |-> "unset", result |-> NoResult]
    /\ cancelledSteps = {}
    /\ trace = <<>>

RECURSIVE Pow(_, _)
Pow(b, e) == IF e = 0 THEN 1 ELSE b * Pow(b, e - 1)

\* a canRetry that allows one retry more
CanRetryInclusive(policy, count) == count <= policy.maxRetries

\* RetryStrategy.canRetry
CanRetry(policy, count) == count < policy.maxRetries

\* an interval that counts the retry about to be made in the exponent
GetNextRetryIntervalNext(policy, count) ==
    IF ~policy.exponentialBackoff THEN policy.retryInterval
    ELSE LET multiplier == IF policy.backoffMultiplier = <<>> THEN 2
                           ELSE policy.backoffMultiplier[1]
         IN policy.retryInterval * Pow(multiplier, count + 1)

\* RetryStrategy.getNextRetryInterval
GetNextRetryInterval(policy, count) ==
    IF ~policy.exponentialBackoff THEN policy.retryInterval
    ELSE LET multiplier == IF policy.backoffMultiplier = <<>> THEN 2
                           ELSE policy.backoffMultiplier[1]
             exponent == count
         IN policy.retryInterval * Pow(multiplier, exponent)

\* a StepRetry event that carries the retry count
RetryAttemptIsCount(count) == count

\* the attempt number carried by the StepRetry event, after recordRetry
RetryAttempt(count) == count + 1

\* SkipStrategy.shouldSkip
ShouldSkip(st) == st.skipPolicy # <<>> /\ st.skipPolicy[1].condition

\* step hooks ahead of the global ones
BeforeHooksStepFirst(st) == st.beforeHooks \o st.globalBeforeHooks

\* hooksToExecute of executeBeforeHooks and of executeAfterHooks
BeforeHooksToExecute(st) == st.globalBeforeHooks \o st.beforeHooks

AfterHooksToExecute(st) == st.afterHooks \o st.globalAfterHooks

\* a before-chain that goes on after a throwing hook
ExecuteBeforeHooksCollecting(hooks, ok) ==
    [success |-> \A k \in 1..Len(hooks) : ok[k],
     ran |-> [k \in 1..Len(hooks) |-> HookRun(hooks[k], ok[k])]]

\* HookManager.executeBeforeHooks on handlers of which ok[k] says whether the
\* k-th returns: the hooks run, in order, and whether the chain succeeded.
ExecuteBeforeHooks(hooks, ok) ==
    LET throwing == {k \in 1..Len(hooks) : ~ok[k]}
    IN IF throwing = {}
       THEN [success |-> TRUE,
             ran |-> [k \in 1..Len(hooks) |-> HookRun(hooks[k], TRUE)]]
       ELSE LET first == CHOOSE k \in throwing : \A j \in throwing : k <= j
            IN [success |-> FALSE,
                ran |-> [k \in 1..first |-> HookRun(hooks[k], ok[k])]]

\* an after-chain that stops at the first throwing hook
ExecuteAfterHooksAborting(hooks, ok) == ExecuteBeforeHooks(hooks, ok)

\* HookManager.executeAfterHooks: every hook runs, errors are collected
ExecuteAfterHooks(hooks, ok) ==
    [success |-> TRUE,
     ran |-> [k \in 1..Len(hooks) |-> HookRun(hooks[k], ok[k])]]

ExecutorUnchanged ==
    UNCHANGED <<componentVars, defn, limits, instCount, instStatus, completedSteps, failedSteps,
                stepStatus, stepOutputs, waitingItems, pendingInteractions,
                pendingCalls, timers, runs, loop, task, result, bodyCount, cancels,
                pauses, events, lastCall>>

\* executor.executeStep(step, ...) up to its first await
ExecuteStep ==
    /\ exec.pc = "idle"
    /\ IF execStep.id \in cancelledSteps
       THEN /\ exec' = [exec EXCEPT !.pc = "returned",
                           !.result = StepResult("Failed", "cancelled", <<>>)]
            /\ UNCHANGED trace
       ELSE IF ShouldSkip(execStep)
       THEN /\ trace' = trace \o <<Emit("StepSkip", 0),
                                   SetStepOutput(execStep.skipPolicy[1].defaultOutput)>>
            /\ exec' = [exec EXCEPT !.pc = "returned",
                           !.stepOutput = execStep.skipPolicy[1].defaultOutput,
                           !.result = StepResult("Skipped", "none", <<>>)]
       ELSE /\ exec' = [exec EXCEPT !.pc = "before"]
            /\ UNCHANGED trace
    /\ UNCHANGED <<execStep, cancelledSteps>>
    /\ ExecutorUnchanged

\* executeBeforeHooks ran and returned; on success executeWithRetry begins:
\* StepStart when there is a retry policy, then the first attempt.
BeforeHooksReturn(ok) ==
    /\ exec.pc = "before"
    /\ \E before \in {ExecuteBeforeHooks(BeforeHooksToExecute(execStep), ok)} :
          IF ~before.success
          THEN /\ trace' = trace \o before.ran \o <<Emit("StepFailed", 0)>>
               /\ exec' = [exec EXCEPT !.pc = "returned",
                              !.result = StepResult("Failed", "hook", <<>>)]
          ELSE /\ trace' = trace \o before.ran
                              \o (IF execStep.retryPolicy # <<>>
                                  THEN <<Emit("StepStart", 1)>> ELSE <<>>)
                              \o <<BodyRun(1)>>
               /\ exec' = [exec EXCEPT !.pc = "body", !.invoked = 1]
    /\ UNCHANGED <<execStep, cancelledSteps>>
    /\ ExecutorUnchanged

\* the attempt in flight settles (executeSingleAttempt returns), up to the
\* next await of executeWithRetry / executeStep
BodySettles(ok) ==
    /\ exec.pc = "body"
    /\ LET count == exec.currentRetryCount
           outcomes == Append(exec.outcomes, ok)
       IN IF ok
          THEN /\ trace' = trace \o (IF execStep.retryPolicy # <<>>
                                     THEN <<Emit("StepComplete", 0)>> ELSE <<>>)
               /\ exec' = [exec EXCEPT !.pc = "after", !.outcomes = outcomes,
                              !.result = StepResult("Success", "none",
                                  IF exec.invoked = 1 THEN <<>> ELSE <<count>>)]
          ELSE IF execStep.retryPolicy = <<>>
          THEN /\ exec' = [exec EXCEPT !.pc = "returned", !.outcomes = outcomes,
                              !.result = StepResult("Failed", "body", <<>>)]
               /\ UNCHANGED trace
          ELSE IF ~CanRetry(execStep.retryPolicy[1], count)
          THEN /\ trace' = Append(trace, Emit("StepFailed", count))
               /\ exec' = [exec EXCEPT !.pc = "returned", !.outcomes = outcomes,
                              !.result = StepResult("Failed", "body", <<count>>)]
          ELSE IF execStep.id \in cancelledSteps
          THEN /\ exec' = [exec EXCEPT !.pc = "returned", !.outcomes = outcomes,
                              !.result = StepResult("Failed", "cancelled", <<count>>)]
               /\ UNCHANGED trace
          ELSE /\ trace' = Append(trace,
                       Sleep(GetNextRetryInterval(execStep.retryPolicy[1], count)))
               /\ exec' = [exec EXCEPT !.pc = "sleep", !.outcomes = outcomes]
    /\ UNCHANGED <<execStep, cancelledSteps>>
    /\ ExecutorUnchanged

\* waitForRetry's timer fired: recordRetry, StepRetry, the next attempt
RetryWakes ==
    /\ exec.pc = "sleep"
    /\ LET count == exec.currentRetryCount + 1
       IN /\ trace' = trace \o <<Emit("StepRetry", RetryAttempt(count)),
                                 BodyRun(exec.invoked + 1)>>
          /\ exec' = [exec EXCEPT !.pc = "body", !.currentRetryCount = count,
                         !.invoked = exec.invoked + 1]
    /\ UNCHANGED <<execStep, cancelledSteps>>
    /\ ExecutorUnchanged

\* executeAfterHooks ran and returned (what it returns is not looked at):
\* the output is written and Success returned
AfterHooksReturn(ok) ==
    /\ exec.pc = "after"
    /\ \E after \in {ExecuteAfterHooks(AfterHooksToExecute(execStep), ok)} :
          /\ trace' = trace \o after.ran \o <<SetStepOutput("output")>>
          /\ exec' = [exec EXCEPT !.pc = "returned", !.stepOutput = "output"]
    /\ UNCHANGED <<execStep, cancelledSteps>>
    /\ ExecutorUnchanged

\* executor.cancelStep(step.id), at any time
CancelStep ==
    /\ execStep.id \notin cancelledSteps
    /\ cancelledSteps' = cancelledSteps \cup {execStep.id}
    /\ trace' = Append(trace, CancelCall)
    /\ UNCHANGED <<execStep, exec>>
    /\ ExecutorUnchanged

(***************************************************************************)
(* WaitManager, driven directly on a clock: startWaitWithConfig,           *)
(* resumeWait, cancelWait, extendTimeout and the setTimeout callbacks.     *)
(* A callback runs once its delay has passed, at that time or later, and   *)
(* never before a callback that is due earlier.  The clock runs up to      *)
(* MaxTime; the environment asks for no timeout that ends after it.        *)
(***************************************************************************)
MaxTime == 3
MaxWaits == 2

WaitStepIds == {"A"}
WaitIds == 1..MaxWaits
Timeouts == {1, 2}
ExtraTimes == {1, 2}
TimeoutStrategies == {"Error", "Default", "Ignore"}

\* createTimeoutConfig; a wait started without one carries none (<<>>)
CreateTimeoutConfig(timeout, strategy) == [timeout |-> timeout, strategy |-> strategy]
TimeoutConfigs ==
    {<<>>} \cup {<<CreateTimeoutConfig(t, s)>> : t \in Timeouts, s \in TimeoutStrategies}

\* a startWait call that was not made yet
NoWait ==
    [stepId |-> "none", timeoutConfig |-> <<>>, startTime |-> 0, timer |-> <<>>,
     timeoutId |-> FALSE, promise |-> "none", value |-> "none", settles |-> 0]

WaitEvent(type, stepId, w) == [type |-> type, stepId |-> stepId, wait |-> w]

WaitManagerInit ==
    /\ now = 0
    /\ waitManager = [waitingItems |-> [s \in WaitStepIds |-> 0],
                      waitingFor |-> [s \in WaitStepIds |-> FALSE]]
    /\ waits = [w \in WaitIds |-> NoWait]
    /\ waitEvents = <<>>

\* The operators below take and return the pair of the manager's maps (m)
\* and the wait items (w).

\* resolve or reject of the promise of call w: a promise settles once
Settle(st, w, how, value) ==
    [m |-> st.m,
     w |-> [st.w EXCEPT ![w] =
               IF @.promise = "pending"
               THEN [@ EXCEPT !.promise = how, !.value = value, !.settles = @ + 1]
               ELSE [@ EXCEPT !.settles = @ + 1]]]

\* clearWaitItem(stepId): on the item the map holds now
ClearWaitItem(st, stepId) ==
    LET c == st.m.waitingItems[stepId]
    IN IF c = 0 THEN st
       ELSE [m |-> [waitingItems |-> [st.m.waitingItems EXCEPT ![stepId] = 0],
                    waitingFor |-> [st.m.waitingFor EXCEPT ![stepId] = FALSE]],
             w |-> [st.w EXCEPT ![c].timer = <<>>]]

\* restartWaitTimer(stepId, waitItem, ...)
RestartWaitTimer(st, stepId, w) ==
    LET cfg == st.w[w].timeoutConfig
    IN IF cfg = <<>> \/ cfg[1].timeout <= 0 THEN st
       ELSE [m |-> [st.m EXCEPT !.waitingItems[stepId] = w],
             w |-> [st.w EXCEPT ![w].timer = <<now + cfg[1].timeout>>,
                                ![w].timeoutId = TRUE]]

\* handleTimeout(stepId, waitItem, resolve, reject) of call w
HandleTimeout(st, stepId, w) ==
    LET cfg == st.w[w].timeoutConfig
        strategy == IF cfg = <<>> THEN "Error" ELSE cfg[1].strategy
        cleared == ClearWaitItem(st, stepId)
    IN CASE strategy = "Error" -> Settle(cleared, w, "rejected", "TimeoutError")
         [] strategy = "Default" -> Settle(cleared, w, "resolved", "defaultValue")
         [] strategy = "Ignore" -> RestartWaitTimer(cleared, stepId, w)

WaitCall(op, stepId, returned) ==
    [op |-> op, error |-> "none", cycle |-> <<>>, stepId |-> stepId,
     returned |-> returned]

\* the engine and the Executor are not involved
HostUnchanged ==
    UNCHANGED <<defn, limits, instCount, instStatus, completedSteps, failedSteps,
                stepStatus, stepOutputs, waitingItems, pendingInteractions,
                pendingCalls, timers, runs, loop, task, result, bodyCount, cancels,
                pauses, events, execStep, exec, cancelledSteps, trace>>

WaitManagerUnchanged == UNCHANGED <<toolVars, uiVars, emitterVars, progressVars>> /\ HostUnchanged

WaitsStarted == Cardinality({w \in WaitIds : waits[w].promise # "none"})

\* startWaitWithConfig(stepId, type, targetId, timeoutConfig)
StartWaitWithConfig(stepId, cfg) ==
    LET w == WaitsStarted + 1
        timed == cfg # <<>> /\ cfg[1].timeout > 0
    IN /\ w <= MaxWaits
       /\ timed => now + cfg[1].timeout <= MaxTime
       /\ waits' = [waits EXCEPT ![w] =
              [stepId |-> stepId, timeoutConfig |-> cfg, startTime |-> now,
               timer |-> IF timed THEN <<now + cfg[1].timeout>> ELSE <<>>,
               timeoutId |-> timed, promise |-> "pending", value |-> "none",
               settles |-> 0]]
       /\ waitManager' = [waitingItems |-> [waitManager.waitingItems EXCEPT ![stepId] = w],
                          waitingFor |-> [waitManager.waitingFor EXCEPT ![stepId] = TRUE]]
       /\ waitEvents' = Append(waitEvents, WaitEvent("WaitStart", stepId, w))
       /\ lastCall' = WaitCall("startWait", stepId, TRUE)
       /\ UNCHANGED now
       /\ WaitManagerUnchanged

\* the setTimeout callback of call w runs
WaitTimerFires(w) ==
    LET stepId == waits[w].stepId
        fired == [m |-> waitManager, w |-> [waits EXCEPT ![w].timer = <<>>]]
    IN /\ waits[w].timer # <<>>
       /\ now >= waits[w].timer[1]
       /\ \A v \in WaitIds : waits[v].timer # <<>> => waits[v].timer[1] >= waits[w].timer[1]
       /\ IF waitManager.waitingItems[stepId] # 0
          THEN /\ waitEvents' = Append(waitEvents, WaitEvent("WaitTimeout", stepId, w))
               /\ \E st \in {HandleTimeout(fired, stepId, w)} :
                      waitManager' = st.m /\ waits' = st.w
          ELSE /\ waits' = fired.w
               /\ UNCHANGED <<waitManager, waitEvents>>
       /\ lastCall' = NoCall
       /\ UNCHANGED now
       /\ WaitManagerUnchanged

\* resumeWait(stepId, result)
ResumeWait(stepId) ==
    LET c == waitManager.waitingItems[stepId]
        cur == [m |-> waitManager, w |-> waits]
    IN /\ IF c = 0
          THEN /\ lastCall' = WaitCall("resumeWait", stepId, FALSE)
               /\ UNCHANGED <<waitManager, waits, waitEvents>>
          ELSE /\ waitEvents' = Append(waitEvents, WaitEvent("WaitResume", stepId, c))
               /\ \E st \in {Settle(ClearWaitItem(cur, stepId), c, "resolved", "result")} :
                      waitManager' = st.m /\ waits' = st.w
               /\ lastCall' = WaitCall("resumeWait", stepId, TRUE)
       /\ UNCHANGED now
       /\ WaitManagerUnchanged

\* cancelWait(stepId, reason)
CancelWait(stepId) ==
    LET c == waitManager.waitingItems[stepId]
        cur == [m |-> waitManager, w |-> waits]
    IN /\ IF c = 0
          THEN /\ lastCall' = WaitCall("cancelWait", stepId, FALSE)
               /\ UNCHANGED <<waitManager, waits, waitEvents>>
          ELSE /\ waitEvents' = Append(waitEvents, WaitEvent("WaitCancel", stepId, c))
               /\ \E st \in {Settle(ClearWaitItem(cur, stepId), c, "rejected", "reason")} :
                      waitManager' = st.m /\ waits' = st.w
               /\ lastCall' = WaitCall("cancelWait", stepId, TRUE)
       /\ UNCHANGED now
       /\ WaitManagerUnchanged

\* the moment a timer set by extendTimeout is due, counted from the call
ExtendedDue(startTime, newTimeout) == now + (newTimeout - (now - startTime))

\* extendTimeout(stepId, additionalTime)
ExtendTimeout(stepId, additionalTime) ==
    LET c == waitManager.waitingItems[stepId]
        item == waits[c]
        newTimeout == item.timeoutConfig[1].timeout + additionalTime
        remainingTime == newTimeout - (now - item.startTime)
        cleared == [m |-> waitManager, w |-> [waits EXCEPT ![c].timer = <<>>]]
    IN /\ IF c = 0 \/ item.timeoutConfig = <<>> \/ ~item.timeoutId
          THEN /\ lastCall' = WaitCall("extendTimeout", stepId, FALSE)
               /\ UNCHANGED <<waitManager, waits>>
          ELSE /\ item.startTime + newTimeout <= MaxTime
               /\ IF remainingTime <= 0
                  THEN \E st \in {HandleTimeout(cleared, stepId, c)} :
                          waitManager' = st.m /\ waits' = st.w
                  ELSE /\ waits' = [cleared.w EXCEPT
                              ![c].timeoutConfig = <<[@[1] EXCEPT !.timeout = newTimeout]>>,
                              ![c].timer = <<ExtendedDue(item.startTime, newTimeout)>>]
                       /\ UNCHANGED waitManager
               /\ lastCall' = WaitCall("extendTimeout", stepId, TRUE)
       /\ UNCHANGED <<now, waitEvents>>
       /\ WaitManagerUnchanged

\* time passes
Tick ==
    /\ now < MaxTime
    /\ now' = now + 1
    /\ lastCall' = NoCall
    /\ UNCHANGED <<waitManager, waits, waitEvents>>
    /\ WaitManagerUnchanged

(***************************************************************************)
(* validateSchema.  A JSON value is a record with its type (as             *)
(* getValueType returns it) and, for an object, its fields (<<>> for a     *)
(* field it does not have), for an array its items.  A JSONSchema has a    *)
(* type and the optional required, properties (in the order of             *)
(* Object.entries) and items.                                              *)
(***************************************************************************)
MaxLen == 2

JsonPrimitive(type) == [type |-> type]
JsonObject(fields) == [type |-> "object", fields |-> fields]
JsonArray(items) == [type |-> "array", items |-> items]

\* getValueType(value)
GetValueType(value) == value.type

\* `name in obj`, for a name that Object.prototype does not have
In(name, obj) == name \in DOMAIN obj.fields /\ obj.fields[name] # <<>>

JsonSchema(type, required, properties, items) ==
    [type |-> type, required |-> required, properties |-> properties, items |-> items]
Property(name, schema) == [name |-> name, schema |-> schema]

SchemaError(path, kind) == [path |-> path, kind |-> kind]

RECURSIVE ValidateSchema(_, _, _)
RECURSIVE ValidateProperties(_, _, _)
RECURSIVE ValidateItems(_, _, _, _)

\* the loop over schema.required
RECURSIVE ValidateRequired(_, _, _)
ValidateRequired(obj, required, path) ==
    IF required = <<>> THEN <<>>
    ELSE (IF In(Head(required), obj) THEN <<>>
          ELSE <<SchemaError(path, "required")>>)
         \o ValidateRequired(obj, Tail(required), path)

\* the loop over Object.entries(schema.properties)
ValidateProperties(obj, properties, path) ==
    IF properties = <<>> THEN <<>>
    ELSE LET prop == Head(properties)
         IN (IF In(prop.name, obj)
             THEN ValidateSchema(obj.fields[prop.name][1], prop.schema,
                                 Append(path, prop.name)).errors
             ELSE <<>>)
            \o ValidateProperties(obj, Tail(properties), path)

\* the loop over the items of an array, from index i
ValidateItems(items, schema, path, i) ==
    IF i > Len(items) THEN <<>>
    ELSE ValidateSchema(items[i], schema, Append(path, "[]")).errors
         \o ValidateItems(items, schema, path, i + 1)

\* validateSchema without the loop over schema.properties
ValidateSchemaWithoutProperties(value, schema, path) ==
    IF GetValueType(value) # schema.type
    THEN [valid |-> FALSE, errors |-> <<SchemaError(path, "type")>>]
    ELSE LET objectErrors ==
                 IF schema.type = "object" /\ schema.required # <<>>
                 THEN ValidateRequired(value, schema.required[1], path) ELSE <<>>
             arrayErrors ==
                 IF schema.type = "array" /\ schema.items # <<>>
                 THEN ValidateItems(value.items, schema.items[1], path, 1)
                 ELSE <<>>
             errors == objectErrors \o arrayErrors
         IN [valid |-> errors = <<>>, errors |-> errors]
\* validateSchema(value, schema, path)
ValidateSchema(value, schema, path) ==
    IF GetValueType(value) # schema.type
    THEN [valid |-> FALSE, errors |-> <<SchemaError(path, "type")>>]
    ELSE LET objectErrors ==
                 IF schema.type = "object"
                 THEN (IF schema.required # <<>>
                       THEN ValidateRequired(value, schema.required[1], path) ELSE <<>>)
                      \o (IF schema.properties # <<>>
                          THEN ValidateProperties(value, schema.properties[1], path) ELSE <<>>)
                 ELSE <<>>
             arrayErrors ==
                 IF schema.type = "array" /\ schema.items # <<>>
                 THEN ValidateItems(value.items, schema.items[1], path, 1)
                 ELSE <<>>
             errors == objectErrors \o arrayErrors
         IN [valid |-> errors = <<>>, errors |-> errors]

\* the values and the schemas handed to invoke
PrimitiveValues == {JsonPrimitive("string"), JsonPrimitive("number"), JsonPrimitive("null")}
InnerValues ==
    PrimitiveValues
    \cup {JsonArray(items) : items \in UNION {[1..n -> PrimitiveValues] : n \in 0..MaxLen}}
    \cup {JsonObject([x |-> f]) : f \in Optional(PrimitiveValues)}
ParamValues ==
    {JsonPrimitive("string"), JsonPrimitive("undefined"), JsonArray(<<JsonPrimitive("number")>>)}
    \cup {JsonObject([name |-> n, age |-> a]) :
              n \in Optional(InnerValues), a \in Optional(PrimitiveValues)}

LeafSchemas == {JsonSchema(t, <<>>, <<>>, <<>>) : t \in {"string", "number"}}
InnerSchemas ==
    LeafSchemas
    \cup {JsonSchema("array", <<>>, <<>>, items) : items \in Optional(LeafSchemas)}
    \cup {JsonSchema("object", required, properties, <<>>) :
              required \in {<<>>, <<<<"x">>>>},
              properties \in {<<>>} \cup {<<<<Property("x", s)>>>> : s \in LeafSchemas}}
InputSchemas ==
    {JsonSchema("string", <<>>, <<>>, <<>>),
     JsonSchema("array", <<>>, <<>>, <<JsonSchema("number", <<>>, <<>>, <<>>)>>)}
    \cup {JsonSchema("object", required, properties, <<>>) :
              required \in {<<>>, <<<<"name">>>>, <<<<"name", "age">>>>},
              properties \in {<<>>}
                  \cup {<<<<Property("name", s)>>>> : s \in InnerSchemas}
                  \cup {<<<<Property("name", s), Property("age", JsonSchema("number", <<>>, <<>>, <<>>))>>>> :
                            s \in InnerSchemas}}

(***************************************************************************)
(* ToolInvoker, driven directly on the same clock: invoke, respondToTool,  *)
(* respondToToolError, cancelPendingCalls and the timers of asynchronous   *)
(* calls.  An id is the sequence of the parts that "_" separates in it:    *)
(* "a_b" is <<"a", "b">>.                                                  *)
(***************************************************************************)
MaxToolCalls == 2

ToolStepIds == {<<"a">>}
ToolIds == {<<"c">>, <<"b", "c">>}
CallIds == 1..MaxToolCalls

\* generateCallId(toolId, stepId): `${stepId}_${toolId}`
GenerateCallId(toolId, stepId) == stepId \o toolId
CallKeys == {GenerateCallId(t, s) : t \in ToolIds, s \in ToolStepIds}

\* ToolMeta: mode, timeout and inputSchema (both optional)
ToolMeta(mode, timeout, inputSchema) ==
    [mode |-> mode, timeout |-> timeout, inputSchema |-> inputSchema]

NoToolResult == [success |-> FALSE, error |-> "none", result |-> "none"]
ToolSuccess(value) == [success |-> TRUE, error |-> "none", result |-> value]
ToolFailure(error) == [success |-> FALSE, error |-> error, result |-> "none"]

\* an invoke call that was not made yet
NoToolCall ==
    [toolId |-> <<>>, stepId |-> <<>>, startTime |-> 0, timer |-> <<>>,
     pc |-> "none", executed |-> FALSE, result |-> NoToolResult, settles |-> 0]

ToolEvent(type, toolId, stepId, c) ==
    [type |-> type, toolId |-> toolId, stepId |-> stepId, call |-> c]

ToolInvokerInit(reg, params) ==
    /\ registry = reg
    /\ toolParams = params
    /\ toolInvoker = [pendingCalls |-> [k \in CallKeys |-> 0]]
    /\ calls = [c \in CallIds |-> NoToolCall]
    /\ toolEvents = <<>>

\* The operators below take and return the triple of pendingCalls (p), the
\* invoke calls (c) and the events emitted (e).
ToolState == [p |-> toolInvoker.pendingCalls, c |-> calls, e |-> toolEvents]

\* the promise that invoke call c returned is resolved with a ToolCallResult
ResolveCall(st, c, res) ==
    [st EXCEPT !.c[c] =
        IF @.pc # "returned"
        THEN [@ EXCEPT !.pc = "returned", !.result = res, !.settles = @ + 1]
        ELSE [@ EXCEPT !.settles = @ + 1]]

\* pendingCall.resolve(result) of the PendingToolCall that call c created
PendingCallResolve(st, c, value) ==
    LET callId == GenerateCallId(st.c[c].toolId, st.c[c].stepId)
        emitted == [st EXCEPT !.p[callId] = 0,
                              !.e = Append(@, ToolEvent("ToolComplete", st.c[c].toolId,
                                                        st.c[c].stepId, c))]
    IN ResolveCall(emitted, c, ToolSuccess(value))

\* pendingCall.reject(error) of the PendingToolCall that call c created
PendingCallReject(st, c, error) ==
    LET callId == GenerateCallId(st.c[c].toolId, st.c[c].stepId)
        emitted == [st EXCEPT !.p[callId] = 0,
                              !.e = Append(@, ToolEvent("ToolFailed", st.c[c].toolId,
                                                        st.c[c].stepId, c))]
    IN ResolveCall(emitted, c, ToolFailure(error))

ToolCallsMade == Cardinality({c \in CallIds : calls[c].pc # "none"})

\* invoker.invoke(toolId, params, context, stepId) up to its first await, as
\* call number c
InvokeFrom(st, c, toolId, params, stepId) ==
    LET made == [st EXCEPT !.c[c] = [NoToolCall EXCEPT !.toolId = toolId,
                                         !.stepId = stepId, !.startTime = now]]
    IN IF registry[toolId] = <<>>
       THEN ResolveCall(made, c, ToolFailure("ToolNotFound"))
       ELSE LET meta == registry[toolId][1]
                invalid == /\ meta.inputSchema # <<>>
                           /\ ~ValidateSchema(params, meta.inputSchema[1], <<"root">>).valid
                invoked == [made EXCEPT !.e = Append(@, ToolEvent("ToolInvoke", toolId, stepId, c))]
                timed == meta.timeout # <<>> /\ meta.timeout[1] > 0
            IN IF invalid
               THEN ResolveCall([made EXCEPT !.e = Append(@, ToolEvent("ToolFailed", toolId, stepId, c))],
                                c, ToolFailure("SchemaValidation"))
               ELSE IF meta.mode = "sync"
               THEN [invoked EXCEPT !.c[c].pc = "executing", !.c[c].executed = TRUE]
               ELSE [invoked EXCEPT !.c[c].pc = "pending",
                                    !.c[c].timer = IF timed THEN <<now + meta.timeout[1]>> ELSE <<>>,
                                    !.p[GenerateCallId(toolId, stepId)] = c]

\* the timeout of a tool ends within the time the clock covers
WithinTime(toolId) ==
    registry[toolId] # <<>> /\ registry[toolId][1].timeout # <<>>
        => now + registry[toolId][1].timeout[1] <= MaxTime

ToolCall(op, stepId, toolId, returned) ==
    [op |-> op, error |-> "none", cycle |-> <<>>, stepId |-> stepId,
     toolId |-> toolId, returned |-> returned]

SetToolState(st) ==
    /\ toolInvoker' = [pendingCalls |-> st.p]
    /\ calls' = st.c
    /\ toolEvents' = st.e

ToolInvokerUnchanged ==
    /\ UNCHANGED <<now, waitVars, uiVars, emitterVars, progressVars, registry, toolParams>>
    /\ HostUnchanged

\* a caller awaits invoke: it calls a tool for a step again only after the
\* call before has returned
Awaited(toolId, stepId) ==
    \A c \in CallIds :
        calls[c].toolId = toolId /\ calls[c].stepId = stepId => calls[c].pc \in {"none", "returned"}

\* invoker.invoke(toolId, toolParams, context, stepId)
Invoke(toolId, stepId) ==
    LET c == ToolCallsMade + 1
    IN /\ c <= MaxToolCalls
       /\ Awaited(toolId, stepId)
       /\ WithinTime(toolId)
       /\ SetToolState(InvokeFrom(ToolState, c, toolId, toolParams, stepId))
       /\ lastCall' = ToolCall("invoke", stepId, toolId, TRUE)
       /\ UNCHANGED <<batch>>
       /\ ToolInvokerUnchanged

\* executeSyncTool after its await: the executor returned or threw, or the
\* timer of executeWithTimeout won the race
SyncToolSettles(c, outcome) ==
    LET meta == registry[calls[c].toolId][1]
        done == [ToolState EXCEPT !.e = Append(@, ToolEvent(
                     IF outcome = "returns" THEN "ToolComplete" ELSE "ToolFailed",
                     calls[c].toolId, calls[c].stepId, c))]
    IN /\ calls[c].pc = "executing"
       /\ outcome = "timeout" =>
              /\ meta.timeout # <<>> /\ meta.timeout[1] > 0
              /\ now >= calls[c].startTime + meta.timeout[1]
       /\ SetToolState(ResolveCall(done, c,
              CASE outcome = "returns" -> ToolSuccess("result")
                [] outcome = "throws" -> ToolFailure("ToolExecution")
                [] outcome = "timeout" -> ToolFailure("Timeout")))
       /\ lastCall' = NoCall
       /\ UNCHANGED <<batch>>
       /\ ToolInvokerUnchanged

\* respondToTool(stepId, toolId, result)
RespondToToolCall(stepId, toolId) ==
    LET c == toolInvoker.pendingCalls[GenerateCallId(toolId, stepId)]
    IN /\ IF c = 0
          THEN /\ lastCall' = ToolCall("respondToTool", stepId, toolId, FALSE)
               /\ UNCHANGED <<toolInvoker, calls, toolEvents>>
          ELSE /\ SetToolState(PendingCallResolve(ToolState, c, "response"))
               /\ lastCall' = ToolCall("respondToTool", stepId, toolId, TRUE)
       /\ UNCHANGED <<batch>>
       /\ ToolInvokerUnchanged

\* respondToToolError(stepId, toolId, error)
RespondToToolError(stepId, toolId) ==
    LET c == toolInvoker.pendingCalls[GenerateCallId(toolId, stepId)]
    IN /\ IF c = 0
          THEN /\ lastCall' = ToolCall("respondToToolError", stepId, toolId, FALSE)
               /\ UNCHANGED <<toolInvoker, calls, toolEvents>>
          ELSE /\ SetToolState(PendingCallReject(ToolState, c, "responseError"))
               /\ lastCall' = ToolCall("respondToToolError", stepId, toolId, TRUE)
       /\ UNCHANGED <<batch>>
       /\ ToolInvokerUnchanged

\* the setTimeout callback of the asynchronous call c runs
AsyncTimerFires(c) ==
    LET fired == [ToolState EXCEPT !.c[c].timer = <<>>]
    IN /\ calls[c].timer # <<>>
       /\ now >= calls[c].timer[1]
       /\ \A d \in CallIds : calls[d].timer # <<>> => calls[d].timer[1] >= calls[c].timer[1]
       /\ SetToolState(
              IF toolInvoker.pendingCalls[GenerateCallId(calls[c].toolId, calls[c].stepId)] # 0
              THEN PendingCallReject(fired, c, "Timeout")
              ELSE fired)
       /\ lastCall' = NoCall
       /\ UNCHANGED <<batch>>
       /\ ToolInvokerUnchanged

\* the second loop of cancelPendingCalls: call.reject for every call id
\* collected, in the order of the map, if the map still holds it
RECURSIVE CancelEach(_, _)
CancelEach(st, toCancel) ==
    IF toCancel = <<>> THEN st
    ELSE LET c == st.p[Head(toCancel)]
         IN CancelEach(IF c # 0 THEN PendingCallReject(st, c, "cancelled") ELSE st,
                       Tail(toCancel))

\* the entries of pendingCalls in insertion order: a call is inserted when
\* it is made
RECURSIVE PendingInOrder(_, _)
PendingInOrder(p, c) ==
    IF c > MaxToolCalls THEN <<>>
    ELSE (IF \E k \in CallKeys : p[k] = c
          THEN <<CHOOSE k \in CallKeys : p[k] = c>> ELSE <<>>) \o PendingInOrder(p, c + 1)

\* cancelPendingCalls(stepId, toolId?)
CancelPendingCalls(stepId, toolId) ==
    LET keys == PendingInOrder(toolInvoker.pendingCalls, 1)
        matches(k) == LET call == calls[toolInvoker.pendingCalls[k]]
                      IN call.stepId = stepId /\ (toolId = <<>> \/ call.toolId = toolId[1])
        toCancel == SelectSeq(keys, matches)
    IN /\ SetToolState(CancelEach(ToolState, toCancel))
       /\ lastCall' = ToolCall("cancelPendingCalls", stepId, toolId, TRUE)
       /\ UNCHANGED <<batch>>
       /\ ToolInvokerUnchanged

(***************************************************************************)
(* executeToolInvocations(invoker, invocations, context, stepId)           *)
(***************************************************************************)
\* a ToolInvocation; its params are toolParams
ToolInvocation(toolId, outputKey) == [toolId |-> toolId, outputKey |-> outputKey]

NoBatch ==
    [invocations |-> <<>>, stepId |-> <<>>, pc |-> "none", index |-> 0, call |-> 0,
     results |-> <<>>, globals |-> {}]

\* the call is not made yet
BatchInit(invocations, stepId) ==
    batch = [NoBatch EXCEPT !.invocations = invocations, !.stepId = stepId, !.pc = "idle"]

\* the head of the for loop at the invocation of index i: invoker.invoke up
\* to the await, or the return after the last invocation
LoopFrom(b, i) ==
    IF i > Len(b.invocations)
    THEN /\ batch' = [b EXCEPT !.pc = "returned"]
         /\ UNCHANGED <<toolInvoker, calls, toolEvents>>
    ELSE /\ batch' = [b EXCEPT !.pc = "awaiting", !.index = i, !.call = ToolCallsMade + 1]
         /\ SetToolState(InvokeFrom(ToolState, ToolCallsMade + 1, b.invocations[i].toolId,
                                    toolParams, b.stepId))

\* executeToolInvocations up to its first await
ExecuteToolInvocations ==
    /\ batch.pc = "idle"
    /\ LoopFrom(batch, 1)
    /\ lastCall' = ToolCall("executeToolInvocations", batch.stepId, <<>>, TRUE)
    /\ ToolInvokerUnchanged

\* the loop without its break
InvocationReturnsWithoutBreak ==
    LET res == calls[batch.call].result
        invocation == batch.invocations[batch.index]
        pushed == [batch EXCEPT
                      !.results = Append(@, res),
                      !.globals = IF res.success /\ invocation.outputKey # <<>>
                                  THEN @ \cup {invocation.outputKey[1]} ELSE @]
    IN /\ batch.pc = "awaiting"
       /\ calls[batch.call].pc = "returned"
       /\ LoopFrom(pushed, batch.index + 1)
       /\ lastCall' = NoCall
       /\ ToolInvokerUnchanged
\* the awaited invoke returned: results.push, context.setGlobal, break or
\* the next round of the loop
InvocationReturns ==
    LET res == calls[batch.call].result
        invocation == batch.invocations[batch.index]
        pushed == [batch EXCEPT
                      !.results = Append(@, res),
                      !.globals = IF res.success /\ invocation.outputKey # <<>>
                                  THEN @ \cup {invocation.outputKey[1]} ELSE @]
    IN /\ batch.pc = "awaiting"
       /\ calls[batch.call].pc = "returned"
       /\ IF ~res.success
          THEN /\ batch' = [pushed EXCEPT !.pc = "returned"]
               /\ UNCHANGED <<toolInvoker, calls, toolEvents>>
          ELSE LoopFrom(pushed, batch.index + 1)
       /\ lastCall' = NoCall
       /\ ToolInvokerUnchanged

(***************************************************************************)
(* UIInteractionHandler, driven directly on the same clock: handleUI as    *)
(* executeStepLogic calls it for a step with a ui, respondToUI,            *)
(* cancelPendingInteraction, the timers, and the rest of executeStepLogic  *)
(* once handleUI has returned.                                             *)
(***************************************************************************)
MaxInteractions == 2

UiStepIds == {"A"}
InteractionIds == 1..MaxInteractions
OptionIds == {"o1", "o2"}
\* `config.timeout ?? 3000` of a Display, in the unit of the clock
DefaultDisplayTime == 3

\* the registered components and their meta.supportedModes
UIComponents ==
    [select |-> {"Display", "Confirm", "Select"}, plain |-> {"Display", "Confirm"}]

\* UIConfig: timeout is optional; options is the list of the option ids,
\* <<>> if there is none
UIConfig(componentId, mode, timeout, options) ==
    [componentId |-> componentId, mode |-> mode, timeout |-> timeout, options |-> options]

UIConfigs ==
    {UIConfig("select", "Select", timeout, options) :
         timeout \in Optional(Timeouts), options \in {<<>>, <<"o1">>, <<"o1", "o2">>}}
    \cup {UIConfig("plain", "Select", <<>>, <<"o1">>), UIConfig("missing", "Select", <<>>, <<"o1">>)}
    \cup {UIConfig("plain", mode, timeout, <<>>) :
              mode \in {"Confirm", "Display"}, timeout \in Optional(Timeouts)}

\* UIRenderResult: userResponse and selectedOption are optional
UIRenderResult(userResponse, selectedOption) ==
    [userResponse |-> userResponse, selectedOption |-> selectedOption]

UIResponses ==
    {UIRenderResult(u, o) : u \in Optional({"answer"}), o \in Optional(OptionIds \cup {"o3"})}

\* UIInteractionResult
NoUIResult ==
    [success |-> FALSE, mode |-> "none", error |-> "none", response |-> <<>>,
     selectedOption |-> <<>>, autoCompleted |-> FALSE]
UIFailure(mode, error) == [NoUIResult EXCEPT !.mode = mode, !.error = error]
UISuccess(mode, response, selectedOption) ==
    [NoUIResult EXCEPT !.success = TRUE, !.mode = mode, !.response = response,
                       !.selectedOption = selectedOption]

\* a handleUI call that was not made yet; logic is where executeStepLogic is
NoInteraction ==
    [stepId |-> "none", config |-> <<>>, pc |-> "none", timer |-> <<>>,
     result |-> NoUIResult, answer |-> <<>>, settles |-> 0,
     logic |-> "none", thrown |-> "none", output |-> <<>>]

UIEvent(type, stepId, payload) == [type |-> type, stepId |-> stepId, payload |-> payload]

UIHandlerInit ==
    /\ uiHandler = [pendingInteractions |-> [s \in UiStepIds |-> 0]]
    /\ interactions = [i \in InteractionIds |-> NoInteraction]
    /\ uiEvents = <<>>

\* The operators below take and return the triple of pendingInteractions
\* (p), the handleUI calls (i) and the events emitted (e).
UIState == [p |-> uiHandler.pendingInteractions, i |-> interactions, e |-> uiEvents]

SetUIState(st) ==
    /\ uiHandler' = [pendingInteractions |-> st.p]
    /\ interactions' = st.i
    /\ uiEvents' = st.e

\* the promise that handleUI call i returned is resolved with a result
ResolveInteraction(st, i, res) ==
    [st EXCEPT !.i[i] =
        IF @.pc # "settled"
        THEN [@ EXCEPT !.pc = "settled", !.result = res, !.settles = @ + 1]
        ELSE [@ EXCEPT !.settles = @ + 1]]

EmitUIEvent(st, type, stepId, payload) ==
    [st EXCEPT !.e = Append(@, UIEvent(type, stepId, payload))]

InteractionsMade == Cardinality({i \in InteractionIds : interactions[i].pc # "none"})

\* handleConfirmUI and handleSelectUI from the render event on
AwaitResponse(st, i, stepId, config) ==
    LET timed == config.timeout # <<>> /\ config.timeout[1] > 0
        rendered == EmitUIEvent(st, "UIRender", stepId, config.mode)
    IN [rendered EXCEPT !.i[i].pc = "pending",
                        !.i[i].timer = IF timed THEN <<now + config.timeout[1]>> ELSE <<>>,
                        !.p[stepId] = i]

\* handleUI(stepId, config, context) up to its first await, as call number i
HandleUIFrom(st, i, stepId, config) ==
    LET made == [st EXCEPT !.i[i] = [NoInteraction EXCEPT !.stepId = stepId,
                                         !.config = <<config>>, !.logic = "awaiting"]]
    IN IF config.componentId \notin DOMAIN UIComponents
       THEN ResolveInteraction(made, i, UIFailure(config.mode, "UIComponentNotFound"))
       ELSE IF config.mode \notin UIComponents[config.componentId]
       THEN ResolveInteraction(made, i, UIFailure(config.mode, "ModeNotSupported"))
       ELSE CASE config.mode = "Display" ->
                     [EmitUIEvent(made, "UIRender", stepId, config.mode) EXCEPT
                         !.i[i].pc = "displaying",
                         !.i[i].timer = <<now + (IF config.timeout # <<>> THEN config.timeout[1]
                                                 ELSE DefaultDisplayTime)>>]
              [] config.mode = "Confirm" -> AwaitResponse(made, i, stepId, config)
              [] config.mode = "Select" ->
                     IF config.options = <<>>
                     THEN ResolveInteraction(made, i, UIFailure("Select", "OptionsRequired"))
                     ELSE AwaitResponse(made, i, stepId, config)

UICall(op, stepId, returned) ==
    [op |-> op, error |-> "none", cycle |-> <<>>, stepId |-> stepId,
     returned |-> returned]

UIHandlerUnchanged ==
    /\ UNCHANGED <<now, waitVars, toolVars, emitterVars, progressVars>>
    /\ HostUnchanged

\* executeStepLogic(step, input, context) of a step with a ui, up to the
\* await of handleUI; the timeout asked for ends within the time the clock
\* covers
HandleUI(stepId, config) ==
    LET i == InteractionsMade + 1
        ends == IF config.timeout # <<>> THEN config.timeout[1]
                ELSE IF config.mode = "Display" THEN DefaultDisplayTime ELSE 0
    IN /\ i <= MaxInteractions
       /\ now + ends <= MaxTime
       /\ SetUIState(HandleUIFrom(UIState, i, stepId, config))
       /\ lastCall' = UICall("handleUI", stepId, TRUE)
       /\ UIHandlerUnchanged

\* handleDisplayUI after its delay
DisplayDelayEnds(i) ==
    LET fired == [UIState EXCEPT !.i[i].timer = <<>>]
        responded == EmitUIEvent(fired, "UIResponse", interactions[i].stepId, "autoCompleted")
    IN /\ interactions[i].pc = "displaying"
       /\ now >= interactions[i].timer[1]
       /\ \A j \in InteractionIds :
              interactions[j].timer # <<>> => interactions[j].timer[1] >= interactions[i].timer[1]
       /\ SetUIState(ResolveInteraction(responded, i,
              [UISuccess("Display", <<>>, <<>>) EXCEPT !.autoCompleted = TRUE]))
       /\ lastCall' = NoCall
       /\ UIHandlerUnchanged

\* the setTimeout callback of the Confirm or Select call i runs
InteractionTimerFires(i) ==
    LET stepId == interactions[i].stepId
        fired == [UIState EXCEPT !.i[i].timer = <<>>]
        deleted == [fired EXCEPT !.p[stepId] = 0]
        responded == EmitUIEvent(deleted, "UIResponse", stepId, "timeout")
    IN /\ interactions[i].pc # "displaying"
       /\ interactions[i].timer # <<>>
       /\ now >= interactions[i].timer[1]
       /\ \A j \in InteractionIds :
              interactions[j].timer # <<>> => interactions[j].timer[1] >= interactions[i].timer[1]
       /\ SetUIState(
              IF uiHandler.pendingInteractions[stepId] # 0
              THEN ResolveInteraction(responded, i,
                       UIFailure(interactions[i].config[1].mode, "Timeout"))
              ELSE fired)
       /\ lastCall' = NoCall
       /\ UIHandlerUnchanged

\* `!response.selectedOption`
NoOption(selectedOption) == selectedOption = <<>> \/ selectedOption[1] = ""

\* config.options?.find((opt) => opt.id === response.selectedOption)
FindOption(options, selectedOption) ==
    LET found == SelectSeq(options, LAMBDA id : id = selectedOption)
    IN IF found = <<>> THEN <<>> ELSE <<Head(found)>>

\* the result respondToUI resolves the interaction with, without the
\* check of the option
RespondResultUnchecked(config, response) ==
    UISuccess(config.mode, response.userResponse, response.selectedOption)

\* the result respondToUI resolves the interaction with
RespondResult(config, response) ==
    IF config.mode = "Select" /\ NoOption(response.selectedOption)
    THEN UIFailure("Select", "OptionRequired")
    ELSE IF config.mode = "Select" /\ FindOption(config.options, response.selectedOption[1]) = <<>>
    THEN UIFailure("Select", "InvalidOption")
    ELSE UISuccess(config.mode, response.userResponse, response.selectedOption)

\* respondToUI(stepId, response)
RespondToUICall(stepId, response) ==
    LET i == uiHandler.pendingInteractions[stepId]
        cleared == [UIState EXCEPT !.i[i].timer = <<>>, !.i[i].answer = <<response>>,
                                   !.p[stepId] = 0]
        responded == EmitUIEvent(cleared, "UIResponse", stepId, "response")
    IN /\ IF i = 0
          THEN /\ lastCall' = UICall("respondToUI", stepId, FALSE)
               /\ UNCHANGED <<uiHandler, interactions, uiEvents>>
          ELSE /\ SetUIState(ResolveInteraction(responded, i,
                       RespondResult(interactions[i].config[1], response)))
               /\ lastCall' = UICall("respondToUI", stepId, TRUE)
       /\ UIHandlerUnchanged

\* cancelPendingInteraction(stepId)
CancelPendingInteraction(stepId) ==
    LET i == uiHandler.pendingInteractions[stepId]
        cleared == [UIState EXCEPT !.i[i].timer = <<>>, !.p[stepId] = 0]
        responded == EmitUIEvent(cleared, "UIResponse", stepId, "cancelled")
    IN /\ IF i = 0
          THEN /\ lastCall' = UICall("cancelPendingInteraction", stepId, FALSE)
               /\ UNCHANGED <<uiHandler, interactions, uiEvents>>
          ELSE /\ SetUIState(ResolveInteraction(responded, i,
                       UIFailure(interactions[i].config[1].mode, "Cancelled")))
               /\ lastCall' = UICall("cancelPendingInteraction", stepId, TRUE)
       /\ UIHandlerUnchanged

\* executeStepLogic after the await of handleUI: it throws uiResult.error
\* or returns {uiResponse, selectedOption}
ExecuteStepLogicResumes(i) ==
    LET uiResult == interactions[i].result
    IN /\ interactions[i].pc = "settled"
       /\ interactions[i].logic = "awaiting"
       /\ interactions' = [interactions EXCEPT ![i] =
              IF ~uiResult.success
              THEN [@ EXCEPT !.logic = "threw", !.thrown = uiResult.error]
              ELSE [@ EXCEPT !.logic = "returned",
                             !.output = <<[uiResponse |-> uiResult.response,
                                           selectedOption |-> uiResult.selectedOption]>>]]
       /\ lastCall' = NoCall
       /\ UNCHANGED <<uiHandler, uiEvents>>
       /\ UIHandlerUnchanged

(***************************************************************************)
(* EventEmitter: on, off, removeAllListeners and emit.  A listener is a    *)
(* function; the listeners of a type are kept in the order they were       *)
(* added (a Set), and emit runs synchronously.                             *)
(***************************************************************************)
MaxEmits == 1

EventTypes == {"StepStart", "StepComplete"}
Listeners == {"f", "g", "h"}
EmitIds == 1..MaxEmits

\* an emit call that was not made yet
NoEmit == [type |-> "none", registered |-> <<>>, called |-> <<>>, outcome |-> "none"]

EventEmitterInit ==
    /\ eventEmitter = [listeners |-> [t \in EventTypes |-> <<>>], has |-> {}]
    /\ emits = [e \in EmitIds |-> NoEmit]

EventEmitterUnchanged ==
    /\ UNCHANGED <<now, waitVars, toolVars, uiVars, progressVars>>
    /\ HostUnchanged

EmitterCall(op, type, returned) ==
    [op |-> op, error |-> "none", cycle |-> <<>>, type |-> type, returned |-> returned]

\* on(eventType, listener): Set.add keeps the place of a listener it has
On(eventType, listener) ==
    /\ eventEmitter' =
           [listeners |-> [eventEmitter.listeners EXCEPT ![eventType] =
                              IF listener \in Range(@) THEN @ ELSE Append(@, listener)],
            has |-> eventEmitter.has \cup {eventType}]
    /\ lastCall' = EmitterCall("on", eventType, TRUE)
    /\ UNCHANGED emits
    /\ EventEmitterUnchanged

\* off(eventType, listener)
Off(eventType, listener) ==
    /\ eventEmitter' =
           [eventEmitter EXCEPT !.listeners[eventType] =
               SelectSeq(@, LAMBDA l : l # listener)]
    /\ lastCall' = EmitterCall("off", eventType,
                               /\ eventType \in eventEmitter.has
                               /\ listener \in Range(eventEmitter.listeners[eventType]))
    /\ UNCHANGED emits
    /\ EventEmitterUnchanged

\* removeAllListeners(eventType?)
RemoveAllListeners(eventType) ==
    /\ eventEmitter' =
           IF eventType # <<>>
           THEN [listeners |-> [eventEmitter.listeners EXCEPT ![eventType[1]] = <<>>],
                 has |-> eventEmitter.has \ {eventType[1]}]
           ELSE [listeners |-> [t \in EventTypes |-> <<>>], has |-> {}]
    /\ lastCall' = EmitterCall("removeAllListeners", eventType, TRUE)
    /\ UNCHANGED emits
    /\ EventEmitterUnchanged

EmitsMade == Cardinality({e \in EmitIds : emits[e].outcome # "none"})

\* the for...of loop of emit over the listeners from index k on: the
\* listeners called, and whether one of them threw
RECURSIVE CallListeners(_, _, _)
CallListeners(eventListeners, throwing, k) ==
    IF k > Len(eventListeners) THEN [called |-> <<>>, threw |-> FALSE]
    ELSE IF eventListeners[k] \in throwing
    THEN [called |-> <<eventListeners[k]>>, threw |-> TRUE]
    ELSE LET rest == CallListeners(eventListeners, throwing, k + 1)
         IN [called |-> <<eventListeners[k]>> \o rest.called, threw |-> rest.threw]

\* emit(event) while the listeners in `throwing` throw when they are called
EmitEvent(type, throwing) ==
    LET e == EmitsMade + 1
        eventListeners == eventEmitter.listeners[type]
        ran == CallListeners(eventListeners, throwing, 1)
    IN /\ e <= MaxEmits
       /\ emits' = [emits EXCEPT ![e] =
              [type |-> type, registered |-> eventListeners, called |-> ran.called,
               outcome |-> IF ran.threw THEN "threw" ELSE "returned"]]
       /\ lastCall' = EmitterCall("emit", type, ~ran.threw)
       /\ UNCHANGED eventEmitter
       /\ EventEmitterUnchanged

\* what a listener does to the emitter while it is called: on or off of a
\* listener for the type of the event it was called with
Subscription(listener, op, target) == [listener |-> listener, op |-> op, target |-> target]
Subscriptions ==
    {Subscription(l, op, target) : l \in Listeners, op \in {"on", "off"}, target \in Listeners}

\* Set.prototype.add and delete on a Set that is being iterated: the entries
\* keep their places, a deleted entry leaves a hole, a new one goes last
AddEntry(entries, listener) ==
    IF listener \in Range(entries) THEN entries ELSE Append(entries, listener)
DeleteEntry(entries, listener) ==
    [k \in DOMAIN entries |-> IF entries[k] = listener THEN "deleted" ELSE entries[k]]

\* the for...of loop of emit from entry k on, over the Set as it is when the
\* iterator reaches each entry
RECURSIVE Dispatch(_, _, _, _)
Dispatch(entries, doing, k, called) ==
    IF k > Len(entries) THEN [entries |-> entries, called |-> called]
    ELSE IF entries[k] = "deleted" THEN Dispatch(entries, doing, k + 1, called)
    ELSE LET listener == entries[k]
             acts == doing # <<>> /\ doing[1].listener = listener
             after == IF ~acts THEN entries
                      ELSE IF doing[1].op = "on" THEN AddEntry(entries, doing[1].target)
                      ELSE DeleteEntry(entries, doing[1].target)
         IN Dispatch(after, doing, k + 1, Append(called, listener))

\* emit(event) while a listener calls on or off when it is called
EmitReentrant(type, doing) ==
    LET e == EmitsMade + 1
        eventListeners == eventEmitter.listeners[type]
        ran == Dispatch(eventListeners, doing, 1, <<>>)
    IN /\ e <= MaxEmits
       /\ emits' = [emits EXCEPT ![e] =
              [type |-> type, registered |-> eventListeners, called |-> ran.called,
               outcome |-> "returned"]]
       /\ eventEmitter' = [eventEmitter EXCEPT !.listeners[type] =
              SelectSeq(ran.entries, LAMBDA l : l # "deleted")]
       /\ lastCall' = EmitterCall("emit", type, TRUE)
       /\ EventEmitterUnchanged

(***************************************************************************)
(* ProgressManager under the calls WorkflowEngine makes on it, and the     *)
(* events that it and the Executor emit on the engine's EventEmitter       *)
(* during a run in which every body passes its input through.              *)
(***************************************************************************)
MaxUpdates == 3

StepStatuses == {"Pending", "Running", "WaitingInput", "Success", "Failed", "Skipped"}

\* an event on the EventEmitter; steps and activeStepId are the payload of
\* a StepBarUpdate, percentage that of a ProgressUpdate
BusEvent(type, stepId, percentage, steps, activeStepId) ==
    [type |-> type, stepId |-> stepId, percentage |-> percentage, steps |-> steps,
     activeStepId |-> activeStepId]

NoProgressManager ==
    [stepStates |-> <<>>, totalSteps |-> 0, activeStepId |-> "",
     lastEmittedPercentage |-> -1]

\* the manager of an engine that has loaded nothing
ProgressIdle ==
    /\ progressManager = NoProgressManager
    /\ bus = <<>>
    /\ transitions = <<>>
    /\ flow = [pc |-> "none", retried |-> {}, completed |-> {}, failed |-> {},
               task |-> [s \in StepIds |-> "none"], status |-> "Idle", result |-> "none"]

\* stepStates.set(step.id, ...) for every step, in the order of the Map
RECURSIVE InitialStates(_, _)
InitialStates(steps, states) ==
    IF steps = <<>> THEN states
    ELSE InitialStates(Tail(steps),
             IF \E k \in 1..Len(states) : states[k].stepId = Head(steps).id
             THEN [k \in 1..Len(states) |->
                      IF states[k].stepId = Head(steps).id
                      THEN [stepId |-> Head(steps).id, status |-> "Pending"] ELSE states[k]]
             ELSE Append(states, [stepId |-> Head(steps).id, status |-> "Pending"]))

\* initialize(definition)
Initialize(definition) ==
    [stepStates |-> InitialStates(definition.steps, <<>>),
     totalSteps |-> Len(definition.steps), activeStepId |-> "",
     lastEmittedPercentage |-> -1]

\* The operators below take and return the pair of the manager (pm) and
\* the events emitted so far (bus).

GetCompletedStepsCount(pm) ==
    Cardinality({k \in 1..Len(pm.stepStates) :
                     pm.stepStates[k].status \in {"Success", "Failed", "Skipped"}})

\* Math.round((completed / totalSteps) * 100)
CalculatePercentage(pm) ==
    IF pm.totalSteps = 0 THEN 0
    ELSE (200 * GetCompletedStepsCount(pm) + pm.totalSteps) \div (2 * pm.totalSteps)

\* emitProgressUpdate(currentStepId)
EmitProgressUpdate(st, currentStepId) ==
    LET percentage == CalculatePercentage(st.pm)
    IN IF percentage = st.pm.lastEmittedPercentage THEN st
       ELSE [pm |-> [st.pm EXCEPT !.lastEmittedPercentage = percentage],
             bus |-> Append(st.bus, BusEvent("ProgressUpdate", currentStepId, percentage, <<>>, ""))]

\* emitStepBarUpdate()
EmitStepBarUpdate(st) ==
    [st EXCEPT !.bus = Append(@, BusEvent("StepBarUpdate", "", -1, st.pm.stepStates,
                                          st.pm.activeStepId))]

\* updateStepStatus without the update of activeStepId
SetStepStatusOnly(st, stepId, status) ==
    IF ~\E k \in 1..Len(st.pm.stepStates) : st.pm.stepStates[k].stepId = stepId
    THEN st
    ELSE LET set == [st EXCEPT
                        !.pm.stepStates = [k \in 1..Len(@) |->
                            IF @[k].stepId = stepId THEN [@[k] EXCEPT !.status = status]
                            ELSE @[k]]]
         IN EmitStepBarUpdate(EmitProgressUpdate(set, stepId))

\* updateStepStatus(stepId, status)
SetStepStatus(st, stepId, status) ==
    IF ~\E k \in 1..Len(st.pm.stepStates) : st.pm.stepStates[k].stepId = stepId
    THEN st
    ELSE LET set == [st EXCEPT
                        !.pm.stepStates = [k \in 1..Len(@) |->
                            IF @[k].stepId = stepId THEN [@[k] EXCEPT !.status = status]
                            ELSE @[k]],
                        !.pm.activeStepId = IF status \in {"Running", "WaitingInput"}
                                            THEN stepId ELSE @]
         IN EmitStepBarUpdate(EmitProgressUpdate(set, stepId))

EmitBus(st, type, stepId) ==
    [st EXCEPT !.bus = Append(@, BusEvent(type, stepId, -1, <<>>, ""))]

ProgressState == [pm |-> progressManager, bus |-> bus]

SetProgressState(st) ==
    /\ progressManager' = st.pm
    /\ bus' = st.bus

ProgressUnchanged ==
    /\ UNCHANGED <<now, waitVars, toolVars, uiVars, emitterVars, lastCall>>
    /\ HostUnchanged

\* a call of updateStepStatus(stepId, status) as handleStepResult and
\* executeStep make it
UpdateStepStatusCall(stepId, status) ==
    /\ Len(transitions) < MaxUpdates
    /\ SetProgressState(SetStepStatus(ProgressState, stepId, status))
    /\ transitions' = IF \E k \in 1..Len(progressManager.stepStates) :
                              progressManager.stepStates[k].stepId = stepId
                      THEN Append(transitions, [stepId |-> stepId, status |-> status])
                      ELSE transitions
    /\ UNCHANGED flow
    /\ ProgressUnchanged

(***************************************************************************)
(* A run of start() on a definition whose bodies pass their input through  *)
(* and whose steps have no hooks and no skip policy; the steps in          *)
(* flow.retried have a retry policy.                                       *)
(***************************************************************************)
\* executeStep(step, context) of the engine up to the first await, which is
\* in Executor.executeStep
RECURSIVE DispatchSteps(_, _)
DispatchSteps(st, ready) ==
    IF ready = <<>> THEN st
    ELSE DispatchSteps(SetStepStatus(st, Head(ready), "Running"), Tail(ready))

\* executeMainLoop from the head of the loop to the next await or the
\* return of start(): f is the flow, st the manager and the bus
MainLoop(f, st) ==
    LET ready == GetReadySteps(defn, f.completed)
    IN IF ready = <<>>
       THEN IF f.failed # {}
            THEN [f |-> [f EXCEPT !.pc = "returned", !.status = "Failed", !.result = "Failed"],
                  st |-> EmitBus(st, "WorkflowFailed", "")]
            ELSE [f |-> [f EXCEPT !.pc = "returned", !.status = "Completed",
                                  !.result = "Completed"],
                  st |-> EmitBus(st, "WorkflowComplete", "")]
       ELSE [f |-> [f EXCEPT !.pc = "batch",
                             !.task = [s \in StepIds |->
                                          IF s \in Range(ready) THEN "before" ELSE @[s]]],
             st |-> DispatchSteps(st, ready)]

SetFlow(run) ==
    /\ flow' = run.f
    /\ SetProgressState(run.st)

FlowUnchanged ==
    /\ UNCHANGED <<now, waitVars, toolVars, uiVars, emitterVars, lastCall, transitions>>
    /\ HostUnchanged

\* start() up to its first await
FlowStart ==
    /\ flow.pc = "loaded"
    /\ SetFlow(MainLoop([flow EXCEPT !.status = "Running"],
                        EmitBus(ProgressState, "WorkflowStart", "")))
    /\ FlowUnchanged

\* executeBeforeHooks returned: executeWithRetry emits StepStart if the step
\* has a retry policy and awaits the body
FlowBeforeHooksReturn(s) ==
    /\ flow.task[s] = "before"
    /\ flow' = [flow EXCEPT !.task[s] = "body"]
    /\ SetProgressState(IF s \in flow.retried THEN EmitBus(ProgressState, "StepStart", s)
                        ELSE ProgressState)
    /\ FlowUnchanged

\* the body returned its input: StepComplete if the step has a retry
\* policy, then executeAfterHooks is awaited
FlowBodyReturns(s) ==
    /\ flow.task[s] = "body"
    /\ flow' = [flow EXCEPT !.task[s] = "after"]
    /\ SetProgressState(IF s \in flow.retried THEN EmitBus(ProgressState, "StepComplete", s)
                        ELSE ProgressState)
    /\ FlowUnchanged

\* executeAfterHooks returned: Executor.executeStep returns Success and
\* handleStepResult runs; when it was the last step of the batch, Promise.all
\* resolves and the main loop goes on
FlowStepReturns(s) ==
    LET done == [flow EXCEPT !.task[s] = "done", !.completed = @ \cup {s}]
        st == SetStepStatus(ProgressState, s, "Success")
    IN /\ flow.task[s] = "after"
       /\ IF \E t \in StepIds : done.task[t] \in {"before", "body", "after"}
          THEN SetFlow([f |-> done, st |-> st])
          ELSE SetFlow(MainLoop(done, st))
       /\ FlowUnchanged

(***************************************************************************)
(* The directly driven components at rest, and their specifications.       *)
(***************************************************************************)
NoRegistry == [t \in ToolIds |-> <<>>]
NoParams == JsonPrimitive("undefined")

ToolInvokerIdle == ToolInvokerInit(NoRegistry, NoParams) /\ batch = NoBatch

ComponentsInit ==
    WaitManagerInit /\ ToolInvokerIdle /\ UIHandlerInit /\ EventEmitterInit /\ ProgressIdle

HostInit == EngineInit(Single("pass", FALSE), FullLimits) /\ ExecutorInit(NoExecStep)

InitWait == HostInit /\ ComponentsInit

NextWait ==
    \/ \E s \in WaitStepIds, cfg \in TimeoutConfigs : StartWaitWithConfig(s, cfg)
    \/ \E w \in WaitIds : WaitTimerFires(w)
    \/ \E s \in WaitStepIds : ResumeWait(s)
    \/ \E s \in WaitStepIds : CancelWait(s)
    \/ \E s \in WaitStepIds, t \in ExtraTimes : ExtendTimeout(s, t)
    \/ Tick

SpecWait == InitWait /\ [][NextWait]_vars

\* The event loop runs every callback that is due, and time passes.
FairWait ==
    /\ \A w \in WaitIds : WF_vars(WaitTimerFires(w))
    /\ WF_vars(Tick)

SpecWaitFair == SpecWait /\ FairWait

\* ToolInvoker with asynchronous tools, every tool with or without a timeout
AsyncRegistries ==
    [ToolIds -> {<<ToolMeta("async", timeout, <<>>)>> : timeout \in Optional(Timeouts)}]

InitTool ==
    /\ HostInit
    /\ WaitManagerInit /\ UIHandlerInit /\ EventEmitterInit /\ ProgressIdle
    /\ \E reg \in AsyncRegistries : ToolInvokerInit(reg, NoParams)
    /\ batch = NoBatch

NextTool ==
    \/ \E t \in ToolIds, s \in ToolStepIds : Invoke(t, s)
    \/ \E t \in ToolIds, s \in ToolStepIds : RespondToToolCall(s, t)
    \/ \E t \in ToolIds, s \in ToolStepIds : RespondToToolError(s, t)
    \/ \E c \in CallIds : AsyncTimerFires(c)
    \/ \E s \in ToolStepIds, t \in Optional(ToolIds) : CancelPendingCalls(s, t)
    \/ Tick

SpecTool == InitTool /\ [][NextTool]_vars

\* The event loop runs every callback that is due, and time passes.
FairTool ==
    /\ \A c \in CallIds : WF_vars(AsyncTimerFires(c))
    /\ WF_vars(Tick)

SpecToolFair == SpecTool /\ FairTool

\* invoke of a synchronous tool, with every inputSchema and every params
SchemaRegistries ==
    {[t \in ToolIds |-> IF t = <<"c">> THEN <<ToolMeta("sync", <<>>, schema)>> ELSE <<>>] :
         schema \in Optional(InputSchemas)}

InitSchema ==
    /\ HostInit
    /\ WaitManagerInit /\ UIHandlerInit /\ EventEmitterInit /\ ProgressIdle
    /\ \E reg \in SchemaRegistries, params \in ParamValues : ToolInvokerInit(reg, params)
    /\ batch = NoBatch

NextSchema ==
    \/ \E t \in ToolIds, s \in ToolStepIds : Invoke(t, s)
    \/ \E c \in CallIds, outcome \in {"returns", "throws"} : SyncToolSettles(c, outcome)

SpecSchema == InitSchema /\ [][NextSchema]_vars

\* executeToolInvocations over every list of invocations of two tools: one
\* synchronous or not registered, one asynchronous
OutputKeys == {"k1", "k2"}
InvocationLists ==
    UNION {[1..n -> {ToolInvocation(t, k) : t \in ToolIds, k \in Optional(OutputKeys)}] :
               n \in 0..MaxToolCalls}
BatchRegistries ==
    {[t \in ToolIds |-> IF t = <<"c">> THEN sync ELSE <<ToolMeta("async", timeout, <<>>)>>] :
         sync \in Optional({ToolMeta("sync", <<1>>, <<>>)}), timeout \in Optional(Timeouts)}

InitInvocations ==
    /\ HostInit
    /\ WaitManagerInit /\ UIHandlerInit /\ EventEmitterInit /\ ProgressIdle
    /\ \E reg \in BatchRegistries : ToolInvokerInit(reg, NoParams)
    /\ \E invocations \in InvocationLists, s \in ToolStepIds : BatchInit(invocations, s)

NextInvocations ==
    \/ ExecuteToolInvocations
    \/ InvocationReturns
    \/ \E c \in CallIds, outcome \in {"returns", "throws", "timeout"} : SyncToolSettles(c, outcome)
    \/ \E t \in ToolIds, s \in ToolStepIds : RespondToToolCall(s, t)
    \/ \E t \in ToolIds, s \in ToolStepIds : RespondToToolError(s, t)
    \/ \E c \in CallIds : AsyncTimerFires(c)
    \/ Tick

SpecInvocations == InitInvocations /\ [][NextInvocations]_vars

\* UIInteractionHandler under every order of its calls and timers
InitUI == HostInit /\ ComponentsInit

NextUI ==
    \/ \E s \in UiStepIds, config \in UIConfigs : HandleUI(s, config)
    \/ \E i \in InteractionIds : DisplayDelayEnds(i)
    \/ \E i \in InteractionIds : InteractionTimerFires(i)
    \/ \E s \in UiStepIds, response \in UIResponses : RespondToUICall(s, response)
    \/ \E s \in UiStepIds : CancelPendingInteraction(s)
    \/ \E i \in InteractionIds : ExecuteStepLogicResumes(i)
    \/ Tick

SpecUI == InitUI /\ [][NextUI]_vars

\* EventEmitter under every order of its calls, with listeners that throw
InitEmitter == HostInit /\ ComponentsInit

NextEmitter ==
    \/ \E t \in EventTypes, l \in Listeners : On(t, l)
    \/ \E t \in EventTypes, l \in Listeners : Off(t, l)
    \/ \E t \in Optional(EventTypes) : RemoveAllListeners(t)
    \/ \E t \in EventTypes, throwing \in SUBSET Listeners : EmitEvent(t, throwing)

SpecEmitter == InitEmitter /\ [][NextEmitter]_vars

\* EventEmitter with listeners that subscribe and unsubscribe while an
\* event is dispatched to them
NextDispatch ==
    \/ \E t \in EventTypes, l \in Listeners : On(t, l)
    \/ \E t \in EventTypes, l \in Listeners : Off(t, l)
    \/ \E t \in Optional(EventTypes) : RemoveAllListeners(t)
    \/ \E t \in EventTypes, doing \in Optional(Subscriptions) : EmitReentrant(t, doing)

SpecDispatch == InitEmitter /\ [][NextDispatch]_vars

\* the definitions of the runs: A; B depends on A; C depends on B, cut
\* after n steps, and the fork in which B and C depend on A
Linear(n) ==
    Def(SubSeq(<<Step("A", <<>>, "pass", FALSE), Step("B", <<"A">>, "pass", FALSE),
                 Step("C", <<"B">>, "pass", FALSE)>>, 1, n))
Fork ==
    Def(<<Step("A", <<>>, "pass", FALSE), Step("B", <<"A">>, "pass", FALSE),
          Step("C", <<"A">>, "pass", FALSE)>>)
FlowDefs == {Linear(n) : n \in 1..3} \cup {Fork}

InitLoaded(d) ==
    /\ EngineInit(d, FullLimits) /\ ExecutorInit(NoExecStep)
    /\ WaitManagerInit /\ ToolInvokerIdle /\ UIHandlerInit /\ EventEmitterInit
    /\ progressManager = Initialize(d)
    /\ bus = <<>>
    /\ transitions = <<>>

\* ProgressManager after initialize(definition), under updateStepStatus
InitProgress ==
    \E d \in FlowDefs :
        /\ InitLoaded(d)
        /\ flow = [pc |-> "none", retried |-> {}, completed |-> {}, failed |-> {},
                   task |-> [s \in StepIds |-> "none"], status |-> "Idle", result |-> "none"]

NextProgress ==
    \E s \in StepIds, status \in StepStatuses : UpdateStepStatusCall(s, status)

SpecProgress == InitProgress /\ [][NextProgress]_vars

\* a run of start() after loadWorkflow(definition)
InitFlow ==
    \E d \in FlowDefs, retried \in SUBSET {"A", "B", "C"} :
        /\ retried \subseteq {d.steps[k].id : k \in 1..Len(d.steps)}
        /\ InitLoaded(d)
        /\ flow = [pc |-> "loaded", retried |-> retried, completed |-> {}, failed |-> {},
                   task |-> [s \in StepIds |-> "none"], status |-> "Idle", result |-> "none"]

NextFlow ==
    \/ FlowStart
    \/ \E s \in StepIds : FlowBeforeHooksReturn(s)
    \/ \E s \in StepIds : FlowBodyReturns(s)
    \/ \E s \in StepIds : FlowStepReturns(s)

SpecFlow == InitFlow /\ [][NextFlow]_vars


(***************************************************************************)
(* Spec: the engine under every interleaving of its API calls.             *)
(***************************************************************************)
Init == \E d \in Catalogue : EngineInit(d, FullLimits) /\ ExecutorInit(NoExecStep) /\ ComponentsInit

TaskStep(r, s) ==
    \/ InvokeBody(r, s)
    \/ \E ok \in BOOLEAN : ToolExecDone(r, s, ok)
    \/ AfterCommit(r, s)
    \/ HandleStepResult(r, s)

TimerStep ==
    \/ \E t \in timers : UITimerFires(t)
    \/ \E t \in timers : ToolTimerFires(t)

Next ==
    \/ LoadWorkflow
    \/ Start
    \/ Pause
    \/ Resume
    \/ Cancel
    \/ \E s \in StepIds : RespondToUI(s)
    \/ \E s \in StepIds : RespondToTool(s)
    \/ \E r \in Runs, s \in StepIds : TaskStep(r, s)
    \/ \E r \in Runs : LoopBatchDone(r)
    \/ \E r \in Runs : LoopSleepWake(r)
    \/ \E r \in Runs : LoopResumeWake(r)
    \/ \E r \in Runs : StartReturn(r)
    \/ TimerStep

Spec == Init /\ [][Next]_vars


(***************************************************************************)
(* SpecLoad: loadWorkflow and start on every small definition.             *)
(***************************************************************************)
LoadIds == {"A", "B", "C"}
DepLists == {<<>>, <<"A">>, <<"B">>, <<"C">>, <<"A", "B">>, <<"A", "A">>, <<"B", "C">>}
LoadSteps == {Step(id, deps, "pass", FALSE) : id \in LoadIds, deps \in DepLists}
LoadDefs ==
    {[steps |-> st, named |-> n] :
        st \in UNION {[1..k -> LoadSteps] : k \in 0..MaxSteps}, n \in BOOLEAN}

OneLoadOneRun == [runs |-> 1, loads |-> 1, cancels |-> 0, pauses |-> 0]

InitLoad == \E d \in LoadDefs : EngineInit(d, OneLoadOneRun) /\ ExecutorInit(NoExecStep) /\ ComponentsInit

NextLoad ==
    \/ LoadWorkflow
    \/ Start
    \/ StartRejected

SpecLoad == InitLoad /\ [][NextLoad]_vars

\* validateWorkflowDefinition and loadWorkflow of one definition, in any order
NextValidate ==
    \/ ValidateWorkflowDefinitionCall
    \/ LoadWorkflow

SpecValidate == InitLoad /\ [][NextValidate]_vars

(***************************************************************************)
(* Graph notions the properties are stated with.                           *)
(***************************************************************************)
\* the steps a step names as dependencies, directly
DirectDeps(d, n) ==
    UNION {Range(d.steps[k].deps) : k \in {j \in 1..Len(d.steps) : d.steps[j].id = n}}

RECURSIVE DepsWithin(_, _, _)
DepsWithin(d, set, k) ==
    IF k = 0 THEN set
    ELSE DepsWithin(d, set \cup UNION {DirectDeps(d, m) : m \in set}, k - 1)

\* the steps a step depends on, directly or not
AllDeps(d, n) == DepsWithin(d, DirectDeps(d, n), Len(d.steps))

DefinedIds(d) == {d.steps[k].id : k \in 1..Len(d.steps)}

\* the dependency graph has a cycle: a step depends on itself
HasCycle(d) == \E n \in DefinedIds(d) : n \in AllDeps(d, n)

\* some step names a dependency that no step of the definition carries as id
NamesUnknownStep(d) == \E n \in DefinedIds(d) : ~(DirectDeps(d, n) \subseteq DefinedIds(d))

\* ids and names are present, there is a step, and no id is used twice
StructurallyValid(d) ==
    /\ d.named
    /\ d.steps # <<>>
    /\ \A j, k \in 1..Len(d.steps) : d.steps[j].id = d.steps[k].id => j = k

LoadRejected == lastCall.op = "loadWorkflow"

(***************************************************************************)
(* C9: loadWorkflow rejects, with a ValidationError, a definition in which *)
(* a step lists a dependency id that is no step of the definition: such a  *)
(* definition is never loaded and never started.                           *)
(***************************************************************************)
C9_UnknownDependencyRejected ==
    NamesUnknownStep(defn) =>
        /\ instCount = 0
        /\ runs = 0
        /\ LoadRejected => lastCall.error \in {"ValidationError", "CyclicDependencyError"}

NextRun ==
    \/ LoadWorkflow
    \/ Start
    \/ \E r \in Runs, s \in StepIds : TaskStep(r, s)
    \/ \E r \in Runs : LoopBatchDone(r)
    \/ \E r \in Runs : StartReturn(r)

FairRun ==
    /\ \A r \in Runs, s \in StepIds : WF_vars(TaskStep(r, s))
    /\ \A r \in Runs : WF_vars(LoopBatchDone(r))
    /\ \A r \in Runs : WF_vars(StartReturn(r))

(***************************************************************************)
(* SpecDiamond: one run of a diamond definition, nothing else called.      *)
(***************************************************************************)
DiamondDefs == {Diamond(b, dd) : b \in {"fail", "pass", "skip"}, dd \in {"pass", "flaky"}}

InitDiamond == \E d \in DiamondDefs : EngineInit(d, OneLoadOneRun) /\ ExecutorInit(NoExecStep) /\ ComponentsInit

SpecDiamond == InitDiamond /\ [][NextRun]_vars /\ FairRun

BFails(d) == DagStep(d, "B").body = "fail"

WorkflowFailedFor(r, s) ==
    \E k \in 1..Len(events) :
        /\ events[k].type = "WorkflowFailed"
        /\ events[k].run = r
        /\ events[k].failedStepId = s

(***************************************************************************)
(* C1: in a run of the diamond {A; B after A; C after A; D after B and C}  *)
(* where the body of B always fails and B has no retry policy, start()     *)
(* eventually returns Failed, with A and C Success, B Failed, the body of  *)
(* D never invoked, and WorkflowFailed carrying failedStepId = B.          *)
(***************************************************************************)
C1_DiamondEndsFailed ==
    (BFails(defn) /\ runs = 1) ~>
        /\ result[1] = "Failed"
        /\ stepStatus[1]["A"] = "Success"
        /\ stepStatus[1]["B"] = "Failed"
        /\ stepStatus[1]["C"] = "Success"
        /\ bodyCount[1]["D"] = 0
        /\ WorkflowFailedFor(1, "B")


(***************************************************************************)
(* SpecCancel: one run, during which cancel() may be called once and the   *)
(* pending UI and tool requests may be answered.                           *)
(***************************************************************************)
CancelDefs == {LinearFlow, ConfirmFlow, AsyncFlow, FailFlow}

OneRunOneCancel == [runs |-> 1, loads |-> 1, cancels |-> 1, pauses |-> 0]

InitCancel == \E d \in CancelDefs : EngineInit(d, OneRunOneCancel) /\ ExecutorInit(NoExecStep) /\ ComponentsInit

NextCancel ==
    \/ NextRun
    \/ Cancel
    \/ \E s \in StepIds : RespondToUI(s)
    \/ \E s \in StepIds : RespondToTool(s)

SpecCancel == InitCancel /\ [][NextCancel]_vars /\ FairRun

\* the events of one start() call, and the event cancel() emits
IsStartOf(e, r) == e.type = "WorkflowStart" /\ e.run = r
IsEndOf(e, r) == e.type \in {"WorkflowComplete", "WorkflowFailed"} /\ e.run = r
IsCancel(e) == e.type = "WorkflowFailed" /\ e.run = 0

\* cancel() was called after start() call r began and before it returned
CancelledDuring(r) ==
    \E j, k \in 1..Len(events) :
        /\ j < k
        /\ IsStartOf(events[j], r)
        /\ IsCancel(events[k])
        /\ \A m \in 1..(k - 1) : ~IsEndOf(events[m], r)

(***************************************************************************)
(* C3: a run on which cancel() was called ends Failed: start() returns a   *)
(* result of status Failed and no WorkflowComplete event is emitted for    *)
(* that run.                                                               *)
(***************************************************************************)
C3_CancelledRunEndsFailed ==
    \A r \in Runs :
        (CancelledDuring(r) /\ result[r] # "none") =>
            /\ result[r] = "Failed"
            /\ \A k \in 1..Len(events) :
                   ~(events[k].type = "WorkflowComplete" /\ events[k].run = r)

(***************************************************************************)
(* C4: after cancel() is called during a run, every step that is waiting   *)
(* for a UI response or for an asynchronous tool response is failed, and   *)
(* start() eventually returns.                                             *)
(***************************************************************************)
C4_CancelFailsWaits ==
    /\ \A s \in StepIds :
           (CancelledDuring(1) /\ task[1][s].pc = "wait") ~> (task[1][s].res = "Failed")
    /\ CancelledDuring(1) ~> (result[1] # "none")

(***************************************************************************)
(* C5: the status of an instance changes only Idle -> Running, Running ->  *)
(* Paused, Paused -> Running, and from a started run (Running or Paused)   *)
(* to Completed or Failed; it never leaves Completed or Failed.            *)
(***************************************************************************)
LegalStatusChanges ==
    {<<"none", "Idle">>, <<"Idle", "Running">>, <<"Running", "Paused">>,
     <<"Paused", "Running">>, <<"Running", "Completed">>, <<"Running", "Failed">>,
     <<"Paused", "Completed">>, <<"Paused", "Failed">>}

C5_StatusTransitions ==
    [][\A i \in Insts :
          instStatus'[i] # instStatus[i] =>
              <<instStatus[i], instStatus'[i]>> \in LegalStatusChanges]_vars

(***************************************************************************)
(* C2: the body of a step is invoked only when every step it depends on    *)
(* has status Success or Skipped and has its output in the stepOutputs of  *)
(* the context the step runs on.                                           *)
(***************************************************************************)
BodyInvoked(r, s) == task[r][s].pc = "hooks" /\ task'[r][s].pc # "hooks"

C2_DependenciesDoneBeforeBody ==
    [][\A r \in Runs, s \in StepIds :
          BodyInvoked(r, s) =>
              \A dep \in Range(DagEdges(defn, s)) :
                  /\ stepStatus[instCount][dep] \in {"Success", "Skipped"}
                  /\ stepOutputs[loop[r].inst][dep] # "unset"]_vars


(***************************************************************************)
(* SpecCalls: the API calls in every state, the rejected ones included.    *)
(***************************************************************************)
CallDefs == {ConfirmFlow, FailFlow}

InitCalls == \E d \in CallDefs : EngineInit(d, FullLimits) /\ ExecutorInit(NoExecStep) /\ ComponentsInit

NextCalls ==
    \/ NextRun
    \/ StartRejected
    \/ Pause
    \/ PauseRejected
    \/ Resume
    \/ ResumeRejected
    \/ Cancel
    \/ CancelRejected
    \/ \E s \in StepIds : RespondToUI(s)
    \/ \E r \in Runs : LoopResumeWake(r)

SpecCalls == InitCalls /\ [][NextCalls]_vars

\* what an accepted start(), pause(), resume() does, seen in one step
StartTakesEffect == runs' = runs + 1
PauseTakesEffect == instCount' = instCount /\ Status # "Paused" /\ Status' = "Paused"
ResumeTakesEffect ==
    /\ instCount' = instCount
    /\ Status # "Running"
    /\ Status' = "Running"
    /\ events' = events

\* the step is a call that raised
Raised(op) == lastCall'.op = op /\ lastCall' # lastCall

EngineStateUnchanged ==
    UNCHANGED <<instCount, instStatus, completedSteps, failedSteps, stepStatus,
                stepOutputs, waitingItems, pendingInteractions, pendingCalls,
                timers, runs, loop, task, result, bodyCount, events>>

(***************************************************************************)
(* C6: start() is rejected when no workflow has been loaded or when the    *)
(* instance is already running: in such a state no start() is accepted,    *)
(* and a start() that raises changes no state.                             *)
(***************************************************************************)
C6_StartRejected ==
    [][/\ StartTakesEffect => (instCount # 0 /\ Status # "Running")
       /\ Raised("start") => EngineStateUnchanged]_vars

\* start() raised on an instance that is running a step
C6_Witness ==
    /\ lastCall = Call("start", "alreadyRunning")
    /\ Status = "Running"
    /\ \E s \in StepIds : task[1][s].pc = "wait"

(***************************************************************************)
(* C8: pause() is rejected unless the status is Running and resume() is    *)
(* rejected unless the status is Paused; a rejected call leaves the status *)
(* unchanged.                                                              *)
(***************************************************************************)
C8_PauseResumeRejected ==
    [][/\ PauseTakesEffect => Status = "Running"
       /\ ResumeTakesEffect => Status = "Paused"
       /\ (Raised("pause") \/ Raised("resume")) => UNCHANGED instStatus]_vars

\* pause() raised on a paused run, whose status stays Paused
C8_Witness ==
    /\ lastCall = Call("pause", "notRunning")
    /\ Status = "Paused"
    /\ runs = 1


(***************************************************************************)
(* SpecPause: one run, paused at most once and resumed.                    *)
(***************************************************************************)
PauseDefs == {LinearFlow, FailFlow, Diamond("pass", "pass"), Diamond("fail", "pass")}

OneRunOnePause == [runs |-> 1, loads |-> 1, cancels |-> 0, pauses |-> 1]

InitPause == \E d \in PauseDefs : EngineInit(d, OneRunOnePause) /\ ExecutorInit(NoExecStep) /\ ComponentsInit

NextPause ==
    \/ NextRun
    \/ Pause
    \/ Resume
    \/ \E r \in Runs : LoopResumeWake(r)

\* waitForResume polls the status every 100 ms
FairPause == FairRun /\ \A r \in Runs : WF_vars(LoopResumeWake(r))

SpecPause == InitPause /\ [][NextPause]_vars /\ FairPause

\* SpecRestart: start() called again at any moment of a run that may be
\* paused and resumed
TwoRunsOnePause == [runs |-> 2, loads |-> 1, cancels |-> 0, pauses |-> 1]

InitRestart == \E d \in PauseDefs : EngineInit(d, TwoRunsOnePause) /\ ExecutorInit(NoExecStep) /\ ComponentsInit

NextRestart ==
    \/ NextPause
    \/ StartRejected

SpecRestart == InitRestart /\ [][NextRestart]_vars

InFlight(r, s) == task[r][s].pc \in {"hooks", "exec", "wait", "after", "result"}

NoStepStartedWhilePaused ==
    [][(Status = "Paused" /\ Status' = "Paused") =>
          \A r \in Runs, s \in StepIds :
              task'[r][s].pc = "hooks" => task[r][s].pc = "hooks"]_vars

(***************************************************************************)
(* C7: while the workflow is Paused no step is started; the steps in       *)
(* flight when pause() was called run to completion and their results are  *)
(* recorded; after resume() the run reaches Completed or Failed.           *)
(***************************************************************************)
C7_PauseResume ==
    /\ NoStepStartedWhilePaused
    /\ \A s \in StepIds :
           (Status = "Paused" /\ InFlight(1, s)) ~> (task[1][s].pc = "done")
    /\ (pauses = 1 /\ Status = "Running") ~> (result[1] \in {"Completed", "Failed"})

(***************************************************************************)
(* SpecScheduler: the Scheduler called directly on the DAG parsed from     *)
(* every small definition: validate, topologicalSort and getReadySteps     *)
(* with every completed set.  lastCall holds what the call returned.       *)
(***************************************************************************)
SchedulerDefs == {d \in LoadDefs : d.named}

SchedulerUnchanged ==
    UNCHANGED <<componentVars, execStep, exec, cancelledSteps, trace, defn, limits, instCount, instStatus, completedSteps, failedSteps,
                stepStatus, stepOutputs, waitingItems, pendingInteractions,
                pendingCalls, timers, runs, loop, task, result, bodyCount, cancels,
                pauses, events>>

CallValidate ==
    /\ \E v \in {SchedulerValidate(defn)} :
           lastCall' = [op |-> "validate",
                        error |-> IF v.kind = "cyclic" THEN "CyclicDependencyError"
                                  ELSE "none",
                        cycle |-> v.cycle,
                        valid |-> v.kind = "valid"]
    /\ SchedulerUnchanged

CallTopologicalSort ==
    /\ \E t \in {TopologicalSort(defn)} :
           lastCall' = [op |-> "topologicalSort", error |-> t.error,
                        cycle |-> t.cycle, sorted |-> t.sorted]
    /\ SchedulerUnchanged

CallGetReadySteps(completed) ==
    /\ lastCall' = [op |-> "getReadySteps", error |-> "none", cycle |-> <<>>,
                    completed |-> completed,
                    ready |-> GetReadySteps(defn, completed)]
    /\ SchedulerUnchanged

InitScheduler == \E d \in SchedulerDefs : EngineInit(d, OneLoadOneRun) /\ ExecutorInit(NoExecStep) /\ ComponentsInit

NextScheduler ==
    \/ CallValidate
    \/ CallTopologicalSort
    \/ \E completed \in SUBSET LoadIds : CallGetReadySteps(completed)

SpecScheduler == InitScheduler /\ [][NextScheduler]_vars

\* a sequence lists every element of a set, each once
ListsEachOnce(seq, set) ==
    /\ Range(seq) = set
    /\ Len(seq) = Cardinality(set)

\* the position of an id in a sequence that holds it
IndexOf(seq, id) == CHOOSE k \in 1..Len(seq) : seq[k] = id

(***************************************************************************)
(* C11: for every definition (at least one step, no step id used twice)    *)
(* whose dependency graph has no cycle and in which every listed           *)
(* dependency names a step, validate succeeds and topologicalSort returns  *)
(* every step exactly once, each after all of its dependencies.            *)
(***************************************************************************)
UniqueIds(d) == \A j, k \in 1..Len(d.steps) : d.steps[j].id = d.steps[k].id => j = k

C11_AcyclicIsSorted ==
    (defn.steps # <<>> /\ UniqueIds(defn) /\ ~HasCycle(defn) /\ ~NamesUnknownStep(defn)) =>
        /\ lastCall.op = "validate" => (lastCall.error = "none" /\ lastCall.valid)
        /\ lastCall.op = "topologicalSort" =>
               /\ lastCall.error = "none"
               /\ ListsEachOnce(lastCall.sorted, DefinedIds(defn))
               /\ \A n \in DefinedIds(defn) : \A m \in DirectDeps(defn, n) :
                      IndexOf(lastCall.sorted, m) < IndexOf(lastCall.sorted, n)

(***************************************************************************)
(* C12: getReadySteps(D, C) returns exactly the steps of D that are not in *)
(* C and whose dependencies all lie in C, each once.                       *)
(***************************************************************************)
C12_ReadySteps ==
    lastCall.op = "getReadySteps" =>
        ListsEachOnce(lastCall.ready,
            {n \in Range(DagNodes(defn)) :
                /\ n \notin lastCall.completed
                /\ Range(DagEdges(defn, n)) \subseteq lastCall.completed})

\* a call with a completed step, a step it makes ready and a step still blocked
C12_Witness ==
    /\ lastCall.op = "getReadySteps"
    /\ lastCall.completed \cap Range(DagNodes(defn)) # {}
    /\ \E n \in Range(lastCall.ready) : DagEdges(defn, n) # <<>>
    /\ \E n \in Range(DagNodes(defn)) \ lastCall.completed :
           n \notin Range(lastCall.ready)

(***************************************************************************)
(* SpecExec: one direct call of executor.executeStep on every small step   *)
(* configuration, with cancelStep at any time.                             *)
(***************************************************************************)
RetryIntervals == {100, 250}
Multipliers == {<<>>, <<2>>, <<3>>}

RetryPolicies ==
    {[maxRetries |-> n, retryInterval |-> b, exponentialBackoff |-> e,
      backoffMultiplier |-> m] :
        n \in 0..MaxRetries, b \in RetryIntervals, e \in BOOLEAN, m \in Multipliers}

SkipPolicies ==
    {[condition |-> c, defaultOutput |-> "defaultOutput"] : c \in BOOLEAN}


\* every hook list with every retry policy of a fixed interval, and every
\* retry policy and skip policy with one hook in each list
ExecSteps ==
    {ExecStep(rp, <<>>, gb, sb, sa, ga) :
        rp \in Optional({p \in RetryPolicies :
                  p.retryInterval = 100 /\ ~p.exponentialBackoff /\ p.backoffMultiplier = <<>>}),
        gb \in 0..MaxHooks, sb \in 0..MaxHooks, sa \in 0..MaxHooks, ga \in 0..MaxHooks}
    \cup {ExecStep(rp, sp, 1, 1, 1, 1) :
              rp \in Optional(RetryPolicies), sp \in Optional(SkipPolicies)}

InitExec ==
    \E st \in ExecSteps :
        EngineInit(Single("pass", FALSE), OneLoadOneRun) /\ ExecutorInit(st) /\ ComponentsInit

NextExec ==
    \/ ExecuteStep
    \/ \E ok \in [1..Len(BeforeHooksToExecute(execStep)) -> BOOLEAN] : BeforeHooksReturn(ok)
    \/ \E ok \in BOOLEAN : BodySettles(ok)
    \/ RetryWakes
    \/ \E ok \in [1..Len(AfterHooksToExecute(execStep)) -> BOOLEAN] : AfterHooksReturn(ok)
    \/ CancelStep

SpecExec == InitExec /\ [][NextExec]_vars

(***************************************************************************)
(* What the properties of the Executor are stated with.                    *)
(***************************************************************************)
Returned == exec.pc = "returned"
HasRetryPolicy == execStep.retryPolicy # <<>>
MaxRetriesOf == execStep.retryPolicy[1].maxRetries
AllAttemptsFailed == \A k \in 1..Len(exec.outcomes) : ~exec.outcomes[k]
NeverCancelled == execStep.id \notin cancelledSteps

IsBeforeHook(e) == e.kind = "hook" /\ e.name \in {"globalBefore", "before"}
IsAfterHook(e) == e.kind = "hook" /\ e.name \in {"after", "globalAfter"}
IsBody(e) == e.kind = "body"
IsSleep(e) == e.kind = "sleep"

Names(seq) == [k \in 1..Len(seq) |-> seq[k].name]
Numbers(seq) == [k \in 1..Len(seq) |-> seq[k].n]

(***************************************************************************)
(* C13: for a step with retryPolicy maxRetries = N whose body always       *)
(* fails, one execution of the step invokes the body at most N+1 times     *)
(* and, unless cancelStep is called for the step meanwhile, it returns     *)
(* Failed with retryCount = N after exactly N+1 invocations.               *)
(***************************************************************************)
C13_RetriesExhausted ==
    (HasRetryPolicy /\ AllAttemptsFailed) =>
        /\ exec.invoked <= MaxRetriesOf + 1
        /\ (Returned /\ exec.invoked > 0 /\ NeverCancelled) =>
               /\ exec.invoked = MaxRetriesOf + 1
               /\ exec.result = StepResult("Failed", "body", <<MaxRetriesOf>>)

\* a body that failed on the first attempt and on both retries
C13_Witness ==
    /\ HasRetryPolicy
    /\ MaxRetriesOf = 2
    /\ exec.outcomes = <<FALSE, FALSE, FALSE>>
    /\ Returned
    /\ exec.result.retryCount = <<2>>

(***************************************************************************)
(* C14: for a step with maxRetries = 2 whose body fails twice and then     *)
(* succeeds, the body is invoked exactly 3 times, exactly two StepRetry    *)
(* events are emitted (attempt = 2, then attempt = 3), each after the      *)
(* failure of the preceding attempt (which started the sleep) and before   *)
(* the next body invocation, and the result is Success with retryCount 2.  *)
(***************************************************************************)
C14_TwoRetriesThenSuccess ==
    (HasRetryPolicy /\ MaxRetriesOf = 2 /\ exec.outcomes = <<FALSE, FALSE, TRUE>>) =>
        /\ exec.invoked = 3
        /\ Names(SelectSeq(trace, LAMBDA e : IsBody(e) \/ IsSleep(e) \/ e.name = "StepRetry"))
               = <<"executeFn", "setTimeout", "StepRetry", "executeFn",
                   "setTimeout", "StepRetry", "executeFn">>
        /\ Numbers(SelectSeq(trace, LAMBDA e : e.name = "StepRetry")) = <<2, 3>>
        /\ Numbers(SelectSeq(trace, IsBody)) = <<1, 2, 3>>
        /\ exec.result = StepResult("Success", "none", <<2>>)

\* the execution returned after two failed attempts and a successful third
C14_Witness ==
    /\ HasRetryPolicy
    /\ MaxRetriesOf = 2
    /\ exec.outcomes = <<FALSE, FALSE, TRUE>>
    /\ Returned

(***************************************************************************)
(* C15: with exponential backoff (base interval B, multiplier M) the sleep *)
(* before attempt k (k >= 2) is B * M^(k-2); without exponential backoff   *)
(* every sleep is B.                                                       *)
(***************************************************************************)
MultiplierOf ==
    IF execStep.retryPolicy[1].backoffMultiplier = <<>> THEN 2
    ELSE execStep.retryPolicy[1].backoffMultiplier[1]

\* the sleeps made so far: the j-th one precedes attempt j + 1
Sleeps == SelectSeq(trace, IsSleep)

C15_BackoffIntervals ==
    HasRetryPolicy =>
        \A j \in 1..Len(Sleeps) :
            Sleeps[j].n = IF execStep.retryPolicy[1].exponentialBackoff
                          THEN execStep.retryPolicy[1].retryInterval
                                   * Pow(MultiplierOf, (j + 1) - 2)
                          ELSE execStep.retryPolicy[1].retryInterval

\* two sleeps under exponential backoff with multiplier 3: B, then 3 B
C15_Witness ==
    /\ HasRetryPolicy
    /\ execStep.retryPolicy[1].exponentialBackoff
    /\ execStep.retryPolicy[1].backoffMultiplier = <<3>>
    /\ Len(Sleeps) = 2
    /\ Sleeps[2].n = 3 * Sleeps[1].n

(***************************************************************************)
(* C16: if cancelStep is called for a step while it sleeps between two     *)
(* retry attempts, its body is not invoked again and the step ends Failed  *)
(* with a cancellation error.                                              *)
(***************************************************************************)
\* the positions of the trace at which cancelStep was called during a sleep
CancelledAsleep ==
    {c \in 1..Len(trace) :
        /\ trace[c] = CancelCall
        /\ \E q \in 1..(c - 1) :
               /\ IsSleep(trace[q])
               /\ \A j \in (q + 1)..(c - 1) : trace[j] = CancelCall}

C16_CancelledWhileSleeping ==
    \A c \in CancelledAsleep :
        /\ \A j \in (c + 1)..Len(trace) : ~IsBody(trace[j])
        /\ Returned => (exec.result.status = "Failed" /\ exec.result.error = "cancelled")

(***************************************************************************)
(* C18: if a before-hook of a step raises, no later before-hook runs, the  *)
(* body is never invoked, and the step result is Failed.                   *)
(***************************************************************************)
C18_BeforeHookRaises ==
    \A k \in 1..Len(trace) :
        (IsBeforeHook(trace[k]) /\ ~trace[k].ok) =>
            /\ \A j \in (k + 1)..Len(trace) : trace[j].kind \notin {"hook", "body"}
            /\ exec.invoked = 0
            /\ Returned
            /\ exec.result.status = "Failed"

\* a global before-hook raised and the step's own before-hook never ran
C18_Witness ==
    /\ Returned
    /\ execStep.beforeHooks # <<>>
    /\ \E k \in 1..Len(trace) :
           IsBeforeHook(trace[k]) /\ ~trace[k].ok /\ trace[k].name = "globalBefore"

(***************************************************************************)
(* C19: a failing after-hook does not stop the remaining after-hooks from  *)
(* running (each runs once, step hooks then global hooks), and the step    *)
(* still ends Success with its output written to stepOutputs.              *)
(***************************************************************************)
AfterHooksRun == SelectSeq(trace, IsAfterHook)

C19_AfterHookRaises ==
    (\E k \in 1..Len(trace) : IsAfterHook(trace[k]) /\ ~trace[k].ok) =>
        /\ [k \in 1..Len(AfterHooksRun) |->
                [phase |-> AfterHooksRun[k].name, n |-> AfterHooksRun[k].n]]
               = execStep.afterHooks \o execStep.globalAfterHooks
        /\ Returned
        /\ exec.result.status = "Success"
        /\ exec.stepOutput = "output"

\* the first of several after-hooks raised
C19_Witness ==
    /\ Returned
    /\ Len(AfterHooksRun) >= 2
    /\ ~AfterHooksRun[1].ok
    /\ AfterHooksRun[2].ok

(***************************************************************************)
(* C20: within one step execution the observable order is: global          *)
(* before-hooks, the step's before-hooks, the body attempts (attempt 1,    *)
(* then the retries in order), the step's after-hooks, global after-hooks, *)
(* the write of the output to stepOutputs: nothing of an earlier phase     *)
(* happens after something of a later phase.                               *)
(***************************************************************************)
Phase(e) ==
    IF e.kind = "hook"
    THEN (IF e.name = "globalBefore" THEN 1
          ELSE IF e.name = "before" THEN 2
          ELSE IF e.name = "after" THEN 4
          ELSE 5)
    ELSE IF e.kind = "body" THEN 3
    ELSE IF e.kind = "output" THEN 6
    ELSE 0

C20_PhaseOrder ==
    /\ \A j, k \in 1..Len(trace) :
           (j < k /\ Phase(trace[j]) # 0 /\ Phase(trace[k]) # 0) =>
               Phase(trace[j]) <= Phase(trace[k])
    /\ Numbers(SelectSeq(trace, IsBody)) = [k \in 1..exec.invoked |-> k]
    /\ (Returned /\ exec.result.status = "Success") =>
           /\ Len(SelectSeq(trace, LAMBDA e : Phase(e) \in {1, 2}))
                  = Len(execStep.globalBeforeHooks) + Len(execStep.beforeHooks)
           /\ Len(SelectSeq(trace, LAMBDA e : Phase(e) \in {4, 5}))
                  = Len(execStep.afterHooks) + Len(execStep.globalAfterHooks)
           /\ trace[Len(trace)].kind \in {"output", "cancel"}

\* a successful execution with hooks in all four lists and a retry
C20_Witness ==
    /\ Returned
    /\ exec.result.status = "Success"
    /\ exec.invoked >= 2
    /\ \A p \in {1, 2, 4, 5} : \E k \in 1..Len(trace) : Phase(trace[k]) = p

(***************************************************************************)
(* C17: when the skip condition of a step holds (B of the diamond), the    *)
(* step ends Skipped without its body being invoked, its stepOutputs entry *)
(* is set to defaultOutput, one StepSkip event is emitted, and the step    *)
(* that depends on it (D) still becomes ready and runs.                    *)
(***************************************************************************)
BSkips(d) == DagStep(d, "B").body = "skip"

StepSkipEvents(s) ==
    {k \in 1..Len(events) : events[k].type = "StepSkip" /\ events[k].stepId = s}

C17_SkipCountsAsCompletion ==
    /\ [](BSkips(defn) =>
            /\ bodyCount[1]["B"] = 0
            /\ stepStatus[1]["B"] \in {"absent", "Pending", "Running", "Skipped"}
            /\ stepStatus[1]["B"] \in {"absent", "Pending"} =>
                   (StepSkipEvents("B") = {} /\ stepOutputs[1]["B"] = "unset")
            /\ stepStatus[1]["B"] \in {"Running", "Skipped"} =>
                   /\ Cardinality(StepSkipEvents("B")) = 1
                   /\ stepOutputs[1]["B"] = "defaultOutput"
            /\ task[1]["B"].pc # "none" => task[1]["B"].res = "Skipped")
    /\ (BSkips(defn) /\ runs = 1) ~>
           (stepStatus[1]["B"] = "Skipped" /\ bodyCount[1]["D"] >= 1)

\* B was skipped, D ran and the run completed
C17_Witness ==
    /\ BSkips(defn)
    /\ stepStatus[1]["B"] = "Skipped"
    /\ bodyCount[1]["D"] >= 1
    /\ result[1] = "Completed"

(***************************************************************************)
(* What the properties of the WaitManager are stated with.                 *)
(***************************************************************************)
Started(w) == waits[w].promise # "none"
Pending(w) == waits[w].promise = "pending"
Settled(w) == waits[w].promise \in {"resolved", "rejected"}
HoldsEntry(w) == Started(w) /\ waitManager.waitingItems[waits[w].stepId] = w
Armed(w) == waits[w].timer # <<>>
\* the WaitTimeout events that the timers of call w emitted
TimeoutEventsOf(w) ==
    Cardinality({k \in DOMAIN waitEvents :
                    waitEvents[k].type = "WaitTimeout" /\ waitEvents[k].wait = w})
\* the startWait call made last for a step, 0 if none
LatestWait(stepId) ==
    LET ws == {w \in WaitIds : Started(w) /\ waits[w].stepId = stepId}
    IN IF ws = {} THEN 0 ELSE CHOOSE w \in ws : \A v \in ws : v <= w

(***************************************************************************)
(* C21: every wait started in the wait manager is settled by exactly one   *)
(* of resume, cancel or timeout: while its promise is pending the wait     *)
(* holds the waitingItems entry of its step, through which resume, cancel  *)
(* and its timer reach it, and its promise is never resolved or rejected   *)
(* a second time.  Once it is settled it holds no entry and no armed       *)
(* timer, no WaitTimeout event is emitted for it any more, and while no    *)
(* new wait is started for the step, resumeWait and cancelWait return      *)
(* false and emit nothing.                                                 *)
(***************************************************************************)
C21_SettledByExactlyOne ==
    /\ [](\A w \in WaitIds :
            /\ waits[w].settles <= 1
            /\ Pending(w) => HoldsEntry(w)
            /\ Settled(w) => ~HoldsEntry(w) /\ ~Armed(w))
    /\ [][/\ \A w \in WaitIds :
               Settled(w) => TimeoutEventsOf(w)' = TimeoutEventsOf(w)
          /\ \A s \in WaitStepIds :
               /\ LatestWait(s) # 0
               /\ Settled(LatestWait(s))
               /\ lastCall'.op \in {"resumeWait", "cancelWait"}
               /\ lastCall'.stepId = s
               => ~lastCall'.returned /\ waitEvents' = waitEvents]_vars

\* the strategy of the timeoutConfig of call w
StrategyOf(w) ==
    IF waits[w].timeoutConfig = <<>> THEN "none" ELSE waits[w].timeoutConfig[1].strategy
\* the promise of call w was settled by the timeout path
TimedOut(w) == Settled(w) /\ waits[w].value \in {"TimeoutError", "defaultValue"}

(***************************************************************************)
(* C22: a wait started with a timeout T under the Error (Default) strategy *)
(* is settled at last, if not by resume or cancel then by the timeout      *)
(* path: no earlier than T after its start, rejected with a Timeout error  *)
(* (resolved with the default value), with exactly one WaitTimeout event   *)
(* emitted for it.                                                         *)
(***************************************************************************)
C22_TimeoutSettles ==
    /\ \A w \in WaitIds :
           (Started(w) /\ StrategyOf(w) \in {"Error", "Default"}) ~> Settled(w)
    /\ [](\A w \in WaitIds : TimedOut(w) =>
                /\ StrategyOf(w) = "Error" =>
                       waits[w].promise = "rejected" /\ waits[w].value = "TimeoutError"
                /\ StrategyOf(w) = "Default" =>
                       waits[w].promise = "resolved" /\ waits[w].value = "defaultValue"
                /\ TimeoutEventsOf(w) = 1)
    /\ [][\A w \in WaitIds : Pending(w) /\ TimedOut(w)' =>
                now >= waits[w].startTime + waits[w].timeoutConfig[1].timeout]_vars

(***************************************************************************)
(* C23: under the Ignore strategy every expiry of the wait's timer emits   *)
(* one WaitTimeout event and leaves the wait active (its promise pending,  *)
(* its waitingItems entry in place) with a re-armed timer; a resumeWait    *)
(* for its step made while it is pending, after any number of expiries,    *)
(* resolves its promise with the resume value.                             *)
(***************************************************************************)
C23_IgnoreKeepsWaiting ==
    [][\A w \in WaitIds : Pending(w) /\ StrategyOf(w) = "Ignore" =>
          /\ WaitTimerFires(w) =>
                /\ TimeoutEventsOf(w)' = TimeoutEventsOf(w) + 1
                /\ Len(waitEvents') = Len(waitEvents) + 1
                /\ Pending(w)' /\ HoldsEntry(w)' /\ Armed(w)'
          /\ lastCall'.op = "resumeWait" /\ lastCall'.stepId = waits[w].stepId =>
                /\ lastCall'.returned
                /\ waits'[w].promise = "resolved" /\ waits'[w].value = "result"]_vars

(***************************************************************************)
(* C24: extendTimeout(stepId, extraMs) on the wait that holds the step's   *)
(* entry, with its timer armed, moves the moment the timer is due later by *)
(* exactly extraMs; if that moment is not after now, the timeout path runs *)
(* at once instead (Error: rejected, Default: resolved with the default    *)
(* value, Ignore: the timer is re-armed with the configured timeout).      *)
(***************************************************************************)
C24_ExtendTimeout ==
    [][\A s \in WaitStepIds, t \in ExtraTimes, c \in WaitIds :
          c = waitManager.waitingItems[s] /\ Armed(c) /\ ExtendTimeout(s, t) =>
                /\ lastCall'.returned
                /\ IF waits[c].timer[1] + t > now
                   THEN /\ Pending(c)' /\ HoldsEntry(c)'
                        /\ waits'[c].timer = <<waits[c].timer[1] + t>>
                   ELSE IF StrategyOf(c) = "Ignore"
                        THEN /\ Pending(c)' /\ HoldsEntry(c)'
                             /\ waits'[c].timer = <<now + waits[c].timeoutConfig[1].timeout>>
                        ELSE TimedOut(c)' /\ ~HoldsEntry(c)' /\ ~Armed(c)']_vars

(***************************************************************************)
(* What the properties of the ToolInvoker are stated with.                 *)
(***************************************************************************)
CallMade(c) == calls[c].pc # "none"
CallPending(c) == calls[c].pc = "pending"
CallReturned(c) == calls[c].pc = "returned"
CallIdOf(c) == GenerateCallId(calls[c].toolId, calls[c].stepId)
HoldsCallEntry(c) == CallMade(c) /\ toolInvoker.pendingCalls[CallIdOf(c)] = c
\* the invoke call made last for a step and a tool, 0 if none
LatestCall(stepId, toolId) ==
    LET cs == {c \in CallIds :
                  CallMade(c) /\ calls[c].stepId = stepId /\ calls[c].toolId = toolId}
    IN IF cs = {} THEN 0 ELSE CHOOSE c \in cs : \A d \in cs : d <= c
HasTimeout(c) == registry[calls[c].toolId][1].timeout # <<>>
\* the ToolComplete and ToolFailed events emitted by the PendingToolCall of c
CompletionEventsOf(c) ==
    Cardinality({k \in DOMAIN toolEvents :
                    /\ toolEvents[k].type \in {"ToolComplete", "ToolFailed"}
                    /\ toolEvents[k].call = c})
\* call c was completed by respondToTool or respondToToolError
AnsweredByResponse(c) ==
    /\ CallReturned(c)
    /\ calls[c].result.result = "response" \/ calls[c].result.error = "responseError"

(***************************************************************************)
(* C25: each asynchronous tool invocation completes exactly once: while it *)
(* is pending it holds the pendingCalls entry of its call id, through      *)
(* which respondToTool, respondToToolError, its timeout and                *)
(* cancelPendingCalls reach it; with a timeout it does complete; its       *)
(* promise is resolved once and one ToolComplete or ToolFailed event is    *)
(* emitted for it.  Afterwards it holds no entry, and while the tool is    *)
(* not invoked again for the step, respondToTool and respondToToolError    *)
(* return false and emit nothing.                                          *)
(***************************************************************************)
C25_CompletesExactlyOnce ==
    /\ [](\A c \in CallIds :
            /\ calls[c].settles <= 1 /\ CompletionEventsOf(c) <= 1
            /\ CallPending(c) => HoldsCallEntry(c)
            /\ CallReturned(c) => ~HoldsCallEntry(c))
    /\ [][\A s \in ToolStepIds, t \in ToolIds :
             /\ LatestCall(s, t) # 0
             /\ CallReturned(LatestCall(s, t))
             /\ lastCall'.op \in {"respondToTool", "respondToToolError"}
             /\ lastCall'.stepId = s /\ lastCall'.toolId = t
             => ~lastCall'.returned /\ toolEvents' = toolEvents]_vars
    /\ \A c \in CallIds : (CallMade(c) /\ HasTimeout(c)) ~> CallReturned(c)

(***************************************************************************)
(* C26: the timer of an asynchronous call that a response completed does   *)
(* nothing when it runs: it leaves pendingCalls and every other call as    *)
(* they are and emits no event.  A later call for the same step and tool   *)
(* stays in pendingCalls while it is pending, so that it can be answered,  *)
(* and fails with a Timeout only once its own timeout has passed.          *)
(***************************************************************************)
C26_TimerReleased ==
    /\ [][\A c \in CallIds : AnsweredByResponse(c) /\ AsyncTimerFires(c) =>
             /\ toolInvoker' = toolInvoker
             /\ toolEvents' = toolEvents
             /\ \A d \in CallIds \ {c} : calls'[d] = calls[d]]_vars
    /\ [](\A d \in CallIds :
             CallPending(d) /\ (\E c \in 1..(d - 1) : AnsweredByResponse(c) /\ CallIdOf(c) = CallIdOf(d))
                 => HoldsCallEntry(d))
    /\ [][\A d \in CallIds :
             CallPending(d) /\ CallReturned(d)' /\ calls'[d].result.error = "Timeout"
                 => now >= calls[d].startTime + registry[calls[d].toolId][1].timeout[1]]_vars

\* A value matches a schema: it has the schema's type; an object has every
\* required field, and each of its fields that the schema describes matches
\* the field's schema; every item of an array matches the items schema.
RECURSIVE Matches(_, _)
Matches(value, schema) ==
    /\ value.type = schema.type
    /\ schema.type = "object" =>
           /\ schema.required # <<>> =>
                  \A k \in DOMAIN schema.required[1] : In(schema.required[1][k], value)
           /\ schema.properties # <<>> =>
                  \A k \in DOMAIN schema.properties[1] :
                      LET prop == schema.properties[1][k]
                      IN In(prop.name, value) => Matches(value.fields[prop.name][1], prop.schema)
    /\ schema.type = "array" /\ schema.items # <<>> =>
           \A k \in DOMAIN value.items : Matches(value.items[k], schema.items[1])

\* the events of invoke call c, in order
EventsOfCall(c) ==
    LET Of(e) == e.call = c
    IN [k \in DOMAIN SelectSeq(toolEvents, Of) |-> SelectSeq(toolEvents, Of)[k].type]

\* invoke call c was made on a tool that declares an inputSchema, with
\* params that do not match it
Mismatch(c) ==
    /\ CallMade(c)
    /\ registry[calls[c].toolId] # <<>>
    /\ registry[calls[c].toolId][1].inputSchema # <<>>
    /\ ~Matches(toolParams, registry[calls[c].toolId][1].inputSchema[1])

(***************************************************************************)
(* C27: invoke of a tool that declares an inputSchema, with params that do *)
(* not match it, returns a failure with a SchemaValidation error, emits    *)
(* ToolFailed (and nothing else) and does not run the tool's executor.     *)
(***************************************************************************)
C27_SchemaMismatchFails ==
    \A c \in CallIds : Mismatch(c) =>
        /\ CallReturned(c)
        /\ calls[c].result = ToolFailure("SchemaValidation")
        /\ EventsOfCall(c) = <<"ToolFailed">>
        /\ ~calls[c].executed

\* params with a field of the wrong type nested in an object were rejected
C27_Witness ==
    \E c \in CallIds :
        /\ Mismatch(c)
        /\ toolParams.type = "object"
        /\ registry[calls[c].toolId][1].inputSchema[1].type = "object"
        /\ In("name", toolParams) /\ In("age", toolParams)
        /\ calls[c].result.error = "SchemaValidation"
        /\ toolEvents # <<>>

\* C28: executeToolInvocations invokes the tools in the order of the list,
\* one at a time: the k-th invoke is of the k-th invocation's tool and is
\* made only when every invoke before it has returned with success, so no
\* invocation is started after the first that fails; the results are those
\* of the invokes in order, and globals holds an outputKey only if an
\* invocation with that outputKey succeeded.
C28_InOrderStopAtFailure ==
    /\ \A k \in CallIds : CallMade(k) =>
           /\ k <= Len(batch.invocations)
           /\ calls[k].toolId = batch.invocations[k].toolId
           /\ calls[k].stepId = batch.stepId
           /\ \A j \in 1..(k - 1) : CallReturned(j) /\ calls[j].result.success
    /\ Len(batch.results) <= Len(batch.invocations)
    /\ \A k \in 1..Len(batch.results) :
           /\ CallReturned(k)
           /\ batch.results[k] = calls[k].result
    /\ \A key \in batch.globals :
           \E k \in 1..Len(batch.results) :
               /\ batch.results[k].success
               /\ batch.invocations[k].outputKey = <<key>>
    /\ batch.pc = "returned" =>
           /\ \A k \in CallIds : CallMade(k) => CallReturned(k)
           /\ Len(batch.results) = Cardinality({k \in CallIds : CallMade(k)})
           /\ \/ Len(batch.results) = Len(batch.invocations)
              \/ ~batch.results[Len(batch.results)].success

\* the first of two invocations failed: the call returned its one result,
\* wrote nothing and never started the second
C28_Witness ==
    /\ batch.pc = "returned"
    /\ Len(batch.invocations) = 2
    /\ batch.invocations[1].outputKey # <<>>
    /\ Len(batch.results) = 1
    /\ ~batch.results[1].success
    /\ batch.results[1].error = "responseError"
    /\ batch.globals = {}
    /\ ~CallMade(2)

Responded(i) == interactions[i].answer # <<>>
SelectedOf(i) == interactions[i].answer[1].selectedOption
DeclaredOptions(i) == Range(interactions[i].config[1].options)
\* respondToUI answered the Select interaction i with a selectedOption
SelectAnswered(i) ==
    /\ Responded(i)
    /\ interactions[i].config[1].mode = "Select"
    /\ SelectedOf(i) # <<>>

\* C29: a pending Select interaction that respondToUI answers with a
\* selectedOption that is not a declared option id fails with the
\* invalid-option error and executeStepLogic throws that error; answered
\* with a declared option id it succeeds and the output of
\* executeStepLogic carries that selectedOption.
C29_SelectOptionChecked ==
    \A i \in InteractionIds : SelectAnswered(i) =>
        /\ interactions[i].pc = "settled"
        /\ interactions[i].settles = 1
        /\ IF SelectedOf(i)[1] \notin DeclaredOptions(i)
           THEN /\ interactions[i].result = UIFailure("Select", "InvalidOption")
                /\ interactions[i].logic \in {"awaiting", "threw"}
                /\ interactions[i].logic = "threw" => interactions[i].thrown = "InvalidOption"
           ELSE /\ interactions[i].result.success
                /\ interactions[i].result.selectedOption = SelectedOf(i)
                /\ interactions[i].logic \in {"awaiting", "returned"}
                /\ interactions[i].logic = "returned" =>
                       interactions[i].output[1].selectedOption = SelectedOf(i)

\* one Select was answered with an option that is not declared and its
\* step threw, another with a declared option and its step returned
C29_Witness ==
    \E i, j \in InteractionIds :
        /\ SelectAnswered(i) /\ SelectAnswered(j)
        /\ SelectedOf(i)[1] \notin DeclaredOptions(i)
        /\ interactions[i].logic = "threw"
        /\ SelectedOf(j)[1] \in DeclaredOptions(j)
        /\ interactions[j].logic = "returned"

\* C30: when a listener throws during emit, every other listener that is
\* registered for the type of the event is still called with the event
\* and emit returns normally.
C30_ThrowingListenerIsolated ==
    \A e \in EmitIds : emits[e].outcome # "none" =>
        /\ emits[e].called = emits[e].registered
        /\ emits[e].outcome = "returned"

\* C31: an emit call delivers the event to exactly the listeners that were
\* registered for its type when emit was called, each once: a listener
\* added while the event is dispatched is not called for it, and a
\* listener removed while it is dispatched is still called.
C31_DispatchToRegistered ==
    \A e \in EmitIds : emits[e].outcome = "returned" =>
        emits[e].called = emits[e].registered

\* the event as the scenario names it
Label(e) ==
    IF e.type = "ProgressUpdate" THEN <<e.type, e.percentage>>
    ELSE IF e.type \in {"StepStart", "StepComplete"} THEN <<e.type, e.stepId>>
    ELSE <<e.type>>

LinearSuccessEvents ==
    <<<<"WorkflowStart">>,
      <<"StepStart", "A">>, <<"StepComplete", "A">>, <<"ProgressUpdate", 33>>,
      <<"StepStart", "B">>, <<"StepComplete", "B">>, <<"ProgressUpdate", 67>>,
      <<"StepStart", "C">>, <<"StepComplete", "C">>, <<"ProgressUpdate", 100>>,
      <<"WorkflowComplete">>>>

\* the entries of `expected` occur in `events` in that order
RECURSIVE OccurInOrder(_, _)
OccurInOrder(expected, evs) ==
    IF expected = <<>> THEN TRUE
    ELSE IF evs = <<>> THEN FALSE
    ELSE IF Label(Head(evs)) = Head(expected) THEN OccurInOrder(Tail(expected), Tail(evs))
    ELSE OccurInOrder(expected, Tail(evs))

\* C32: when the run of the linear definition A; B depends on A; C depends
\* on B has returned, its events WorkflowStart, StepStart(A),
\* StepComplete(A), ProgressUpdate(33), StepStart(B), StepComplete(B),
\* ProgressUpdate(67), StepStart(C), StepComplete(C), ProgressUpdate(100),
\* WorkflowComplete have occurred in this order and the result is Completed.
C32_LinearSuccessEvents ==
    flow.pc = "returned" /\ defn = Linear(3) =>
        /\ OccurInOrder(LinearSuccessEvents, bus)
        /\ flow.result = "Completed"

StepBarUpdates == SelectSeq(bus, LAMBDA e : e.type = "StepBarUpdate")
\* the step of the latest of the first k transitions that went into
\* Running or WaitingInput
RECURSIVE MostRecentActive(_)
MostRecentActive(k) ==
    IF k = 0 THEN ""
    ELSE IF transitions[k].status \in {"Running", "WaitingInput"} THEN transitions[k].stepId
    ELSE MostRecentActive(k - 1)

LoadedInstance == <<instCount, instStatus, stepStatus, stepOutputs, completedSteps, failedSteps>>

\* C34: validateWorkflowDefinition(D) reports valid exactly when the
\* loadWorkflow(D) that follows it succeeds, and the call itself leaves the
\* loaded instance, its status and the engine's other state as they were.
C34_ValidateAgreesWithLoad ==
    [][/\ (lastCall'.op = "validateWorkflowDefinition" /\ lastCall' # lastCall
            => UNCHANGED <<LoadedInstance, runs, loop, events, execStep, exec>>)
       /\ (lastCall.op = "validateWorkflowDefinition" /\ lastCall' # lastCall
            => (lastCall.error = "valid" <=> instCount' = instCount + 1))]_vars

TerminalStepStatuses == {"Success", "Skipped", "Failed"}

\* C35: within a run a step that has ended Success, Skipped or Failed is
\* not started again: its status stays what it is, and its body, which has
\* no retry policy here (maxRetries = 0), is invoked at most once.
C35_StepStartedOnce ==
    [][\A r \in Runs, s \in StepIds :
          /\ \A i \in Insts :
                 stepStatus[i][s] \in TerminalStepStatuses => stepStatus'[i][s] = stepStatus[i][s]
          /\ bodyCount'[r][s] <= 1]_vars

\* C36: whenever the status of an instance is Completed, every step of its
\* definition has status Success or Skipped, whatever start, pause, resume,
\* cancel and loadWorkflow calls were made.
C36_CompletedMeansAllDone ==
    \A i \in Insts :
        instStatus[i] = "Completed" =>
            \A s \in StepsOf(defn) : stepStatus[i][s] \in {"Success", "Skipped"}

\* the positions of the WorkflowComplete and WorkflowFailed events that
\* follow the WorkflowStart of start() call r, up to the next WorkflowStart
TerminalEventsOf(r) ==
    {k \in 1..Len(events) :
        /\ events[k].type \in {"WorkflowComplete", "WorkflowFailed"}
        /\ \E j \in 1..(k - 1) :
               /\ IsStartOf(events[j], r)
               /\ \A m \in (j + 1)..(k - 1) : events[m].type # "WorkflowStart"}

\* C37: after the WorkflowStart of a run there is never a second
\* WorkflowComplete or WorkflowFailed, and when start() has returned there
\* is exactly one, also when cancel() was called during the run.
C37_OneTerminalEvent ==
    \A r \in Runs :
        /\ Cardinality(TerminalEventsOf(r)) <= 1
        /\ result[r] # "none" => Cardinality(TerminalEventsOf(r)) = 1

\* executeMainLoop of start() call r has begun and has not returned
LoopActive(r) == loop[r].pc \notin {"none", "exited", "returned"}

\* C38: no two main loops are active on one instance at the same time; in
\* particular a start() called while the run is Paused begins no second one.
C38_OneMainLoop ==
    \A r1, r2 \in Runs :
        (r1 # r2 /\ LoopActive(r1) /\ LoopActive(r2)) => loop[r1].inst # loop[r2].inst

\* wait w was started for the step of the earlier wait v
StartedOver(v, w) == v < w /\ Started(v) /\ Started(w) /\ waits[v].stepId = waits[w].stepId

\* C39: a wait whose step got a later wait started over it is not left
\* pending forever, and when the timer of the earlier wait fires it neither
\* settles the later wait nor takes away its entry or its timer.
C39_OverlappingWaits ==
    /\ \A v \in WaitIds :
           (\E w \in WaitIds : StartedOver(v, w) /\ Pending(v)) ~> Settled(v)
    /\ [][\A v, w \in WaitIds :
             StartedOver(v, w) /\ WaitTimerFires(v) =>
                 /\ waits'[w] = waits[w]
                 /\ HoldsEntry(w) => HoldsEntry(w)']_vars

\* C40: at every moment a step has an entry in waitingItems exactly when
\* its runtime state has waitingFor set, also after the timer of a wait
\* under the Ignore strategy has expired.
C40_MapsConsistent ==
    \A s \in WaitStepIds : (waitManager.waitingItems[s] # 0) <=> waitManager.waitingFor[s]

====
